---- MODULE Spec2Model ----
(***************************************************************************)
(* Model of the Student Notes Maker:                                       *)
(*   - the credential/model rotator and the resilient invoker of           *)
(*     src/services/aiService.js (getNextKeyAndModel, callGemini);         *)
(*   - the quiz scoring of OutputScreen.jsx, the quiz part of the profile  *)
(*     store (utils/storage.js) and the dashboard aggregate                *)
(*     (components/Dashboard.jsx);                                         *)
(*   - the user profiles of utils/storage.js, chunkText of                 *)
(*     utils/textProcessing.js and processInput of App.jsx;                *)
(*   - concurrent invocations of callGemini and concurrent writers of the  *)
(*     profile store.                                                      *)
(***************************************************************************)
EXTENDS Integers, Sequences, FiniteSets, TLC

(* ------------------------------ bounds --------------------------------- *)
\* API_KEYS.length ranges over 0..MaxKeys, MODELS.length over 1..MaxModels
MaxKeys == 2
MaxModels == 2
\* the concurrent specification starts at most MaxCalls invocations
MaxCalls == 2
\* notes generated in a run, and questions per note
MaxNotes == 2
QCount == 1
\* answers checked in a run
MaxChecks == 2
\* questions of the note whose stored results the dashboard starts from
MaxResults == 3
\* profiles created in a run
MaxUsers == 2
\* chunkText is called with maxWords in 1..MaxWords, overlapPercent in
\* 0..MaxPercent, on texts of maxWords words give or take MaxExtraWords
MaxWords == 50
MaxPercent == 100
MaxExtraWords == 1
\* chunks pushed by one call
MaxChunks == 3
\* chunks of the input of a pipeline run
MaxChunkCount == 4
\* pipeline runs started
MaxRuns == 2
\* questions of the note that two tabs of the browser answer
MaxTabQuestions == 2

VARIABLES
  numKeys,            \* API_KEYS.length (after the filter of empty keys)
  numModels,          \* MODELS.length
  currentKeyIndex,    \* module-level cursor of aiService.js
  currentModelIndex,
  inv,                \* the running callGemini invocations, one record each
  handed,             \* history: the last numKeys*numModels pairs handed out
  lastDone,           \* history: the invocation that completed last
  calls               \* history: invocations started so far, counted up to MaxCalls

rotVars == <<numKeys, numModels, currentKeyIndex, currentModelIndex, inv, handed, lastDone, calls>>

VARIABLES
  currentUser,        \* localStorage CURRENT_USER: a user id or NoUser
  notes,              \* userData.notes of the current user, newest first
  quizResults,        \* userData.quizResults
  quizProgress,       \* userData.quizProgress: noteId -> saved progress
  nextNoteId,         \* the id Date.now() gives the next note
  screen,             \* what the App shows: "input", "output" or "dashboard"
  notesData,          \* the note the OutputScreen shows, or NoNote
  selectedAnswers,    \* state of the OutputScreen component
  showAnswers,
  questionScores,
  allQuestionsChecked,
  stats,              \* state of the Dashboard component
  calcPending,        \* the 50 ms timer of handleResetNote is armed
  checks              \* history: answers checked so far

storeVars == <<currentUser, notes, quizResults, quizProgress, nextNoteId>>
viewVars == <<screen, notesData, selectedAnswers, showAnswers, questionScores,
              allQuestionsChecked, stats, calcPending, checks>>
quizVars == <<storeVars, viewVars>>

(* ------------------------- rotator (aiService.js) ---------------------- *)
Invokers == {"a", "b"}

NoPair == <<>>
NoError == "null"

\* the pair getNextKeyAndModel returns: read before the cursor moves
getNextKeyAndModel == <<currentKeyIndex, currentModelIndex>>

NextModelIndexSkip(k, m) == IF m + 2 >= numModels THEN 0 ELSE m + 2

\* currentModelIndex++ ; if (currentModelIndex >= MODELS.length) currentModelIndex = 0
NextModelIndex(k, m) == IF m + 1 >= numModels THEN 0 ELSE m + 1

\* a credential index that runs past the end of the list
WrapNone(k) == k + 1

\* (currentKeyIndex + 1) % API_KEYS.length
Wrap(k) == (k + 1) % numKeys

NextKeyIndexStuck(k, m) == k

\* ... currentKeyIndex = (currentKeyIndex + 1) % API_KEYS.length
NextKeyIndex(k, m) == IF m + 1 >= numModels THEN Wrap(k) ELSE k

\* a loop bound that counts the credentials only
totalCombinationsOfKeys == numKeys

\* const totalCombinations = API_KEYS.length * MODELS.length
totalCombinations == numKeys * numModels

\* the rotation order of the documentation: all models of a key, then the
\* next key, cyclically; stated on positions, independently of the cursor code
RotationSucc(p) ==
  LET pos == (p[1] * numModels + p[2] + 1) % (numKeys * numModels)
  IN <<pos \div numModels, pos % numModels>>

\* history window: keep the last totalCombinations pairs
Remember(h, p) ==
  LET s == Append(h, p)
  IN IF Len(s) > totalCombinations THEN Tail(s) ELSE s

(* ------------------------- responses of the backend -------------------- *)
RetryableStatus == {"429", "403", "404", "400"}
OtherStatus == {"500", "500quota"}      \* 500quota: the server's message names a quota
BodyFailure == {"safety", "notext"}     \* HTTP success, no usable candidate text
NetworkFailure == {"neterr"}            \* fetch rejects
Texts == {"t1", "t2"}                   \* HTTP success with candidates[0].content.parts[0].text
Responses == RetryableStatus \cup OtherStatus \cup BodyFailure \cup NetworkFailure \cup Texts

\* the message of the Error built for a failed attempt
Reason(r) ==
  CASE r \in {"429", "403"} -> "Rate limit: " \o r
    [] r \in {"404", "400"} -> "Model error: " \o r
    [] r = "500" -> "API request failed with status 500"
    [] r = "500quota" -> "quota exceeded"
    [] r = "safety" -> "Content blocked by safety filters"
    [] r = "notext" -> "Invalid response format from Gemini API"
    [] OTHER -> "Failed to fetch"

\* a catch block that takes no message for a rate-limit message
IsRateLimitMessageNever(msg) == FALSE

\* error.message.includes("429") || includes("quota") || includes("rate limit")
IsRateLimitMessage(msg) == msg \in {"quota exceeded", "Rate limit: 429"}

ConfigError == "Gemini API keys not configured. Please add your API keys to .env file."
ExhaustedError == "All API key/model combinations exhausted. Please wait before retrying."

(* ------------------------- invoker (callGemini) ------------------------ *)
\* locals of one callGemini invocation, with the history the properties need:
\*   alone      no other invocation was running at any time of this one
\*   pairs      the pairs of the attempts, in order, kept while alone
\*   lastPair   the pair of the latest attempt
\*   consecutive  each attempt used the RotationSucc of the attempt before
\*   prevLast   last pair of the previous invocation, when both ran alone
\*   onlyRetry  every failed attempt so far got a status in RetryableStatus
\*   only429    every failed attempt so far got status 429
\*   fatalAt    number of the first attempt answered by an OtherStatus or a
\*              BodyFailure (0: none), fatalKind its response
\*   delayed    a 500 ms delay followed the latest failed attempt
\*   resp       the response that settled the latest attempt
IdleInv ==
  [pc |-> "idle", attemptCount |-> 0, lastError |-> NoError, pairs |-> <<>>,
   result |-> "", error |-> NoError,
   alone |-> TRUE, lastPair |-> NoPair, consecutive |-> TRUE,
   prevLast |-> NoPair, onlyRetry |-> TRUE, only429 |-> TRUE,
   fatalAt |-> 0, fatalKind |-> "", delayed |-> FALSE, resp |-> ""]

Running(i) == inv[i].pc \in {"fetching", "delay"}

OthersQuiet(i) == \A j \in Invokers \ {i} : ~Running(j)

InitInvoker ==
  /\ numKeys \in 0..MaxKeys
  /\ numModels \in 1..MaxModels
  /\ currentKeyIndex = 0
  /\ currentModelIndex = 0
  /\ inv = [i \in Invokers |-> IdleInv]
  /\ handed = <<>>
  /\ lastDone = [last |-> NoPair, alone |-> FALSE]
  /\ calls = 0

\* history bookkeeping when an invocation completes with record rec
Completed(rec) ==
  lastDone' = IF rec.lastPair = NoPair THEN lastDone
              ELSE [last |-> rec.lastPair, alone |-> rec.alone]

\* throw lastError || new Error("All ... combinations exhausted")
ThrowExhausted(i, base, rec) ==
  /\ inv' = [base EXCEPT ![i] = [rec EXCEPT !.pc = "failed",
                 !.error = IF rec.lastError # NoError THEN rec.lastError ELSE ExhaustedError]]
  /\ Completed(rec)
  /\ UNCHANGED <<currentKeyIndex, currentModelIndex, handed>>

\* the locals and the history of rec once an attempt with pair p is under way
Attempting(rec, p) ==
  [rec EXCEPT !.pc = "fetching",
              !.attemptCount = @ + 1,
              !.pairs = IF rec.alone THEN Append(@, p) ELSE <<>>,
              !.consecutive = @ /\ (rec.lastPair = NoPair \/ p = RotationSucc(rec.lastPair)),
              !.lastPair = p]

\* a cursor that is reset when an invocation starts
IssueAttemptRewind(i, base, rec) ==
  LET first == rec.attemptCount = 0
      k == IF first THEN 0 ELSE currentKeyIndex
      m == IF first THEN 0 ELSE currentModelIndex
  IN /\ inv' = [base EXCEPT ![i] = Attempting(rec, <<k, m>>)]
     /\ currentModelIndex' = NextModelIndex(k, m)
     /\ currentKeyIndex' = NextKeyIndex(k, m)
     /\ handed' = Remember(handed, <<k, m>>)
     /\ UNCHANGED lastDone

\* the head of the loop body up to the await of fetch:
\* getNextKeyAndModel(), attemptCount++, fetch(url, ...)
IssueAttempt(i, base, rec) ==
  /\ inv' = [base EXCEPT ![i] = Attempting(rec, getNextKeyAndModel)]
  /\ currentModelIndex' = NextModelIndex(currentKeyIndex, currentModelIndex)
  /\ currentKeyIndex' = NextKeyIndex(currentKeyIndex, currentModelIndex)
  /\ handed' = Remember(handed, getNextKeyAndModel)
  /\ UNCHANGED lastDone

LoopConditionOffByOne(attemptCount) == attemptCount <= totalCombinations

\* the loop condition: while (attemptCount < totalCombinations)
LoopCondition(attemptCount) == attemptCount < totalCombinations

\* while (attemptCount < totalCombinations) { ... } throw ...
LoopHead(i, base, rec) ==
  IF LoopCondition(rec.attemptCount)
  THEN IssueAttempt(i, base, rec)
  ELSE ThrowExhausted(i, base, rec)

KeysConfiguredUnchecked == TRUE

\* if (API_KEYS.length === 0) throw new Error("Gemini API keys not configured...")
KeysConfigured == numKeys # 0

\* callGemini(prompt, ...): the guard, the locals, and the first pass of the
\* loop up to its fetch (no await comes before it)
callGemini(i) ==
  /\ ~Running(i)
  /\ LET quiet == OthersQuiet(i)
         rec == [IdleInv EXCEPT !.alone = quiet,
                   !.prevLast = IF quiet /\ lastDone.alone THEN lastDone.last ELSE NoPair]
         \* an invocation that starts while others run ends their running alone
         base == [j \in Invokers |-> IF j # i /\ Running(j)
                                     THEN [inv[j] EXCEPT !.alone = FALSE, !.pairs = <<>>]
                                     ELSE inv[j]]
     IN IF ~KeysConfigured
        THEN /\ inv' = [base EXCEPT ![i] = [rec EXCEPT !.pc = "failed", !.error = ConfigError]]
             /\ Completed(rec)
             /\ UNCHANGED <<currentKeyIndex, currentModelIndex, handed>>
        ELSE LoopHead(i, base, rec)
  /\ calls' = IF calls < MaxCalls THEN calls + 1 ELSE calls
  /\ UNCHANGED <<numKeys, numModels>>

CatchBlockNoDelay(msg, attemptCount) == "continue"

\* what the catch block does with a caught error:
\*   "continue"  message matches a rate-limit pattern: next pass at once
\*   "delay"     other error and attemptCount < totalCombinations: wait 500 ms
\*   "fall"      other error after the last attempt: fall through to the loop head
CatchBlock(msg, attemptCount) ==
  IF IsRateLimitMessage(msg) THEN "continue"
  ELSE IF attemptCount < totalCombinations THEN "delay"
  ELSE "fall"

\* a catch block that rethrows what it caught
CatchErrorRethrow(i, failed) == ThrowExhausted(i, inv, failed)

\* catch (error) { lastError = error; ... } with failed.lastError the caught error
CatchError(i, failed) ==
  IF CatchBlock(failed.lastError, failed.attemptCount) = "delay"
  THEN \* await new Promise((resolve) => setTimeout(resolve, 500))
       /\ inv' = [inv EXCEPT ![i] = [failed EXCEPT !.pc = "delay", !.delayed = TRUE]]
       /\ UNCHANGED <<currentKeyIndex, currentModelIndex, handed, lastDone>>
  ELSE LoopHead(i, inv, failed)

\* the fetch of invocation i settles with response r: classification of the
\* response (lines 109-153) and the catch block (154-170)
Respond(i, r) ==
  /\ inv[i].pc = "fetching"
  /\ LET n == inv[i].attemptCount
         seen == [inv[i] EXCEPT
                    !.onlyRetry = @ /\ r \in RetryableStatus \cup Texts,
                    !.only429 = @ /\ r \in {"429"} \cup Texts,
                    !.fatalAt = IF @ = 0 /\ r \in OtherStatus \cup BodyFailure THEN n ELSE @,
                    !.fatalKind = IF inv[i].fatalAt = 0 /\ r \in OtherStatus \cup BodyFailure
                                  THEN r ELSE @,
                    !.delayed = FALSE,
                    !.resp = r]
         failed == [seen EXCEPT !.lastError = Reason(r)]
     IN CASE r \in RetryableStatus ->
               \* lastError = new Error(...); continue
               LoopHead(i, inv, failed)
          [] r \in Texts ->
               \* return data.candidates[0].content.parts[0].text
               /\ inv' = [inv EXCEPT ![i] = [seen EXCEPT !.pc = "returned", !.result = r]]
               /\ Completed(seen)
               /\ UNCHANGED <<currentKeyIndex, currentModelIndex, handed>>
          [] OTHER ->
               \* throw new Error(...) inside the try, or fetch rejected
               CatchError(i, failed)
  /\ UNCHANGED <<numKeys, numModels, calls>>

\* the 500 ms timer of the catch block fires: back to the loop head
DelayDone(i) ==
  /\ inv[i].pc = "delay"
  /\ LoopHead(i, inv, inv[i])
  /\ UNCHANGED <<numKeys, numModels, calls>>

(* --------------------- profile store (utils/storage.js) ---------------- *)
NoUser == "none"
NoNote == [id |-> 0, correct |-> <<>>]
Options == {"A", "B"}
QuestionIndexes == 0..(QCount - 1)

\* userData.notes.slice(0, 50)
NotesCap == 50

\* a JS object literal {...obj, [k]: v}
Put(obj, k, v) == [x \in (DOMAIN obj) \cup {k} |-> IF x = k THEN v ELSE obj[x]]

\* delete obj[k]
Drop(obj, k) == [x \in (DOMAIN obj) \ {k} |-> obj[x]]

EmptyObject == <<>>

InitialStats ==
  [correctAnswers |-> 0, incorrectAnswers |-> 0, totalMarks |-> 0,
   averageScore10 |-> 0, questionsAttempted |-> 0]

InitStore ==
  /\ currentUser \in {NoUser, "u1"}
  /\ notes = <<>>
  /\ quizResults = <<>>
  /\ quizProgress = EmptyObject
  /\ nextNoteId = 1
  /\ screen = "input"
  /\ notesData = NoNote
  /\ selectedAnswers = EmptyObject
  /\ showAnswers = EmptyObject
  /\ questionScores = EmptyObject
  /\ allQuestionsChecked = FALSE
  /\ stats = InitialStats
  /\ calcPending = FALSE
  /\ checks = 0

\* saveNoteToHistory(note): the new note goes first, the list is cut at 50
saveNoteToHistory(note) ==
  LET all == <<note>> \o notes
  IN notes' = SubSeq(all, 1, IF Len(all) > NotesCap THEN NotesCap ELSE Len(all))

\* a save that always pushes
saveQuizResultAppend(result) ==
  IF currentUser = NoUser THEN quizResults
  ELSE Append(quizResults, result)

\* saveQuizResult(result): replace the entry of the same (noteId, questionIndex)
\* or push a new one; nothing without a current user
saveQuizResult(result) ==
  IF currentUser = NoUser THEN quizResults
  ELSE LET SameKey(r) == r.noteId = result.noteId /\ r.questionIndex = result.questionIndex
           \* findIndex: the first match, 1-based, 0 when absent
           existingIndex ==
             IF \E x \in 1..Len(quizResults) : SameKey(quizResults[x])
             THEN CHOOSE x \in 1..Len(quizResults) :
                    SameKey(quizResults[x]) /\ \A y \in 1..(x - 1) : ~SameKey(quizResults[y])
             ELSE 0
       IN IF existingIndex # 0
          THEN [quizResults EXCEPT ![existingIndex] = result]
          ELSE Append(quizResults, result)

\* saveQuizProgress(noteId, progress): overwrite the entry of the note
saveQuizProgress(noteId, progress) ==
  IF currentUser = NoUser THEN quizProgress
  ELSE Put(quizProgress, noteId, progress)

\* getQuizProgress(noteId): userData.quizProgress?.[noteId] || null
HasQuizProgress(noteId) == currentUser # NoUser /\ noteId \in DOMAIN quizProgress

\* getQuizResults(): the results of the current user, [] without one
getQuizResults == IF currentUser = NoUser THEN <<>> ELSE quizResults

(* --------------------- quiz (OutputScreen component) ------------------- *)
CheckAnswerNoPenalty(userAnswer, correct) ==
  IF userAnswer = correct
  THEN [score |-> 1, isCorrect |-> TRUE]
  ELSE [score |-> 0, isCorrect |-> FALSE]

\* handleShowAnswer: +1 for correct, -1 for wrong
CheckAnswer(userAnswer, correct) ==
  IF userAnswer = correct
  THEN [score |-> 1, isCorrect |-> TRUE]
  ELSE [score |-> -1, isCorrect |-> FALSE]

\* the correct options of the questions generated for note id
QuestionSheets(id) == {[q \in 1..QCount |-> IF (id + q) % 2 = 0 THEN "A" ELSE "B"]}

\* the end of a successful processInput: saveNoteToHistory(finalNotesData),
\* setNotesData(savedNote), setScreen("output"); the OutputScreen mounts and
\* its effect loads the saved progress of the note (none for a new note)
GenerateNote(correct) ==
  /\ screen = "input"
  /\ currentUser # NoUser
  /\ nextNoteId <= MaxNotes
  /\ LET savedNote == [id |-> nextNoteId, correct |-> correct]
     IN /\ saveNoteToHistory(savedNote)
        /\ notesData' = savedNote
  /\ nextNoteId' = nextNoteId + 1
  /\ screen' = "output"
  /\ selectedAnswers' = EmptyObject
  /\ showAnswers' = EmptyObject
  /\ questionScores' = EmptyObject
  /\ allQuestionsChecked' = FALSE
  /\ UNCHANGED <<checks, currentUser, quizResults, quizProgress, stats, calcPending>>

\* Dashboard onViewNote(note): the OutputScreen mounts with the note and its
\* effect restores the saved progress, if there is one
ViewNote(x) ==
  /\ screen = "dashboard"
  /\ x \in 1..Len(notes)
  /\ notesData' = notes[x]
  /\ screen' = "output"
  /\ IF HasQuizProgress(notes[x].id)
     THEN LET savedProgress == quizProgress[notes[x].id]
          IN /\ selectedAnswers' = savedProgress.selectedAnswers
             /\ showAnswers' = savedProgress.showAnswers
             /\ questionScores' = savedProgress.questionScores
             /\ allQuestionsChecked' = savedProgress.allQuestionsChecked
     ELSE /\ selectedAnswers' = EmptyObject
          /\ showAnswers' = EmptyObject
          /\ questionScores' = EmptyObject
          /\ allQuestionsChecked' = FALSE
  \* the Dashboard unmounts
  /\ stats' = InitialStats
  /\ calcPending' = FALSE
  /\ UNCHANGED <<storeVars, checks>>

\* an option that stays clickable after the answer was checked
handleAnswerSelectAnytime(questionIndex, option) ==
  /\ screen = "output"
  /\ questionIndex < Len(notesData.correct)
  /\ selectedAnswers' = Put(selectedAnswers, questionIndex, option)
  /\ UNCHANGED <<checks, storeVars, screen, notesData, showAnswers, questionScores,
                 allQuestionsChecked, stats, calcPending>>

\* handleAnswerSelect(questionIndex, option), clickable while !isAnswered
handleAnswerSelect(questionIndex, option) ==
  /\ screen = "output"
  /\ questionIndex < Len(notesData.correct)
  /\ questionIndex \notin DOMAIN showAnswers
  /\ selectedAnswers' = Put(selectedAnswers, questionIndex, option)
  /\ UNCHANGED <<checks, storeVars, screen, notesData, showAnswers, questionScores,
                 allQuestionsChecked, stats, calcPending>>

\* handleShowAnswer(questionIndex); the button shows while !isAnswered and is
\* disabled while !userAnswer
handleShowAnswer(questionIndex) ==
  /\ screen = "output"
  /\ questionIndex \notin DOMAIN showAnswers
  /\ questionIndex \in DOMAIN selectedAnswers
  /\ checks < MaxChecks
  /\ checks' = checks + 1
  /\ LET userAnswer == selectedAnswers[questionIndex]
         correct == notesData.correct[questionIndex + 1]
         checked == CheckAnswer(userAnswer, correct)
         quizResultData ==
           [noteId |-> notesData.id, questionIndex |-> questionIndex,
            userAnswer |-> userAnswer, correctAnswer |-> correct,
            isCorrect |-> checked.isCorrect, score |-> checked.score]
         newShowAnswers == Put(showAnswers, questionIndex, TRUE)
         newQuestionScores == Put(questionScores, questionIndex, checked.score)
         allChecked == Cardinality(DOMAIN newShowAnswers) = Len(notesData.correct)
         updatedSelectedAnswers == Put(selectedAnswers, questionIndex, userAnswer)
     IN /\ quizResults' = saveQuizResult(quizResultData)
        /\ showAnswers' = newShowAnswers
        /\ questionScores' = newQuestionScores
        /\ allQuestionsChecked' = allChecked
        /\ quizProgress' = saveQuizProgress(notesData.id,
             [selectedAnswers |-> updatedSelectedAnswers,
              showAnswers |-> newShowAnswers,
              questionScores |-> newQuestionScores,
              allQuestionsChecked |-> allChecked])
  /\ UNCHANGED <<currentUser, notes, nextNoteId, screen, notesData, selectedAnswers,
                 stats, calcPending>>

\* handleResetQuestions, confirmed
handleResetQuestions ==
  /\ screen = "output"
  /\ selectedAnswers' = EmptyObject
  /\ showAnswers' = EmptyObject
  /\ questionScores' = EmptyObject
  /\ allQuestionsChecked' = FALSE
  /\ quizProgress' = saveQuizProgress(notesData.id,
       [selectedAnswers |-> EmptyObject, showAnswers |-> EmptyObject,
        questionScores |-> EmptyObject, allQuestionsChecked |-> FALSE])
  /\ UNCHANGED <<checks, currentUser, notes, quizResults, nextNoteId, screen, notesData,
                 stats, calcPending>>

\* handleBack: back to the input screen, the OutputScreen unmounts
handleBack ==
  /\ screen = "output"
  /\ screen' = "input"
  /\ notesData' = NoNote
  /\ selectedAnswers' = EmptyObject
  /\ showAnswers' = EmptyObject
  /\ questionScores' = EmptyObject
  /\ allQuestionsChecked' = FALSE
  /\ UNCHANGED <<checks, storeVars, stats, calcPending>>

\* a question left unanswered
NotAnswered == "-"

\* what handleShowAnswer has stored once the questions of note that have an
\* option in given were answered with it, in the order of the questions, from
\* question q on
RECURSIVE AnsweredFrom(_, _, _)
AnsweredFrom(note, given, q) ==
  IF q >= Len(note.correct) THEN <<>>
  ELSE (IF given[q + 1] = NotAnswered THEN <<>>
        ELSE LET checked == CheckAnswer(given[q + 1], note.correct[q + 1])
             IN <<[noteId |-> note.id, questionIndex |-> q,
                   userAnswer |-> given[q + 1], correctAnswer |-> note.correct[q + 1],
                   isCorrect |-> checked.isCorrect, score |-> checked.score]>>)
       \o AnsweredFrom(note, given, q + 1)

\* the progress handleShowAnswer has saved after the same answers
ProgressAfter(note, given) ==
  LET answered == {q \in 0..(Len(note.correct) - 1) : given[q + 1] # NotAnswered}
  IN [selectedAnswers |-> [q \in answered |-> given[q + 1]],
      showAnswers |-> [q \in answered |-> TRUE],
      questionScores |->
        [q \in answered |-> CheckAnswer(given[q + 1], note.correct[q + 1]).score],
      allQuestionsChecked |-> Cardinality(answered) = Len(note.correct)]

(* --------------------- dashboard (Dashboard component) ----------------- *)
RECURSIVE SumScores(_)
SumScores(results) ==
  IF results = <<>> THEN 0 ELSE Head(results).score + SumScores(Tail(results))

RECURSIVE CountCorrect(_)
CountCorrect(results) ==
  IF results = <<>> THEN 0
  ELSE (IF Head(results).isCorrect THEN 1 ELSE 0) + CountCorrect(Tail(results))

PercentageUnnormalized(totalScore, questionsAttempted) ==
  IF questionsAttempted > 0
  THEN (totalScore * 1000 + questionsAttempted \div 2) \div questionsAttempted
  ELSE 0

\* parseFloat((((totalScore + questionsAttempted) / (2 * questionsAttempted)) * 100).toFixed(1))
\* for questionsAttempted > 0, else 0. The result is kept in tenths of a
\* percent: toFixed(1) rounds the quotient to the nearest tenth, and takes the
\* larger one on a tie.
Percentage(totalScore, questionsAttempted) ==
  IF questionsAttempted > 0
  THEN ((totalScore + questionsAttempted) * 1000 + questionsAttempted)
         \div (2 * questionsAttempted)
  ELSE 0

\* the quiz part of the stats object calculateStats builds from the results
StatsOf(results) ==
  [correctAnswers |-> CountCorrect(results),
   incorrectAnswers |-> Len(results) - CountCorrect(results),
   totalMarks |-> SumScores(results),
   averageScore10 |-> Percentage(SumScores(results), Len(results)),
   questionsAttempted |-> Len(results)]

\* calculateStats(): const quizResults = getQuizResults(); ... setStats(...)
calculateStats == StatsOf(getQuizResults)

NoPerformance == [score |-> 0, attempted |-> 0, correct |-> 0, percentage10 |-> 0]

\* getNotePerformance(noteId): null (NoPerformance) without results of the note
getNotePerformance(noteId) ==
  LET OfNote(r) == r.noteId = noteId
      noteResults == SelectSeq(getQuizResults, OfNote)
  IN IF Len(noteResults) = 0 THEN NoPerformance
     ELSE [score |-> SumScores(noteResults),
           attempted |-> Len(noteResults),
           correct |-> CountCorrect(noteResults),
           percentage10 |-> Percentage(SumScores(noteResults), Len(noteResults))]

\* the Dashboard opens from the input screen; its mount effect runs calculateStats
OpenDashboard ==
  /\ screen = "input"
  /\ screen' = "dashboard"
  /\ stats' = calculateStats
  /\ calcPending' = FALSE
  /\ UNCHANGED <<checks, storeVars, notesData, selectedAnswers, showAnswers, questionScores,
                 allQuestionsChecked>>

\* onClose: the Dashboard unmounts
CloseDashboard ==
  /\ screen = "dashboard"
  /\ screen' = "input"
  /\ stats' = InitialStats
  /\ calcPending' = FALSE
  /\ UNCHANGED <<checks, storeVars, notesData, selectedAnswers, showAnswers, questionScores,
                 allQuestionsChecked>>

\* a deletion that leaves the quiz results of the note behind
deleteNoteFromHistoryKeepResults(noteId) ==
  IF currentUser = NoUser
  THEN UNCHANGED <<notes, quizResults, quizProgress>>
  ELSE LET OtherNote(note) == note.id # noteId
       IN /\ notes' = SelectSeq(notes, OtherNote)
          /\ quizResults' = quizResults
          /\ quizProgress' = IF noteId \in DOMAIN quizProgress
                             THEN Drop(quizProgress, noteId) ELSE quizProgress

\* deleteNoteFromHistory(noteId)
deleteNoteFromHistory(noteId) ==
  IF currentUser = NoUser
  THEN UNCHANGED <<notes, quizResults, quizProgress>>
  ELSE LET OtherNote(note) == note.id # noteId
           OtherResult(result) == result.noteId # noteId
       IN /\ notes' = SelectSeq(notes, OtherNote)
          /\ quizResults' = SelectSeq(quizResults, OtherResult)
          /\ quizProgress' = IF noteId \in DOMAIN quizProgress
                             THEN Drop(quizProgress, noteId) ELSE quizProgress

\* a reset that wipes the quiz data of every note
resetNoteQuizDataAll(noteId) ==
  IF currentUser = NoUser
  THEN UNCHANGED <<quizResults, quizProgress>>
  ELSE /\ quizResults' = <<>>
       /\ quizProgress' = EmptyObject

\* resetNoteQuizData(noteId)
resetNoteQuizData(noteId) ==
  IF currentUser = NoUser
  THEN UNCHANGED <<quizResults, quizProgress>>
  ELSE LET OtherResult(result) == result.noteId # noteId
       IN /\ quizResults' = SelectSeq(quizResults, OtherResult)
          /\ quizProgress' = IF noteId \in DOMAIN quizProgress
                             THEN Drop(quizProgress, noteId) ELSE quizProgress

\* handleDeleteNote(noteId), confirmed: deleteNoteFromHistory, then
\* onNotesUpdate remounts the Dashboard, whose mount effect recalculates
handleDeleteNote(x) ==
  /\ screen = "dashboard"
  /\ x \in 1..Len(notes)
  /\ deleteNoteFromHistory(notes[x].id)
  /\ stats' = StatsOf(IF currentUser = NoUser THEN <<>> ELSE quizResults')
  /\ calcPending' = FALSE
  /\ UNCHANGED <<checks, currentUser, nextNoteId, screen, notesData, selectedAnswers,
                 showAnswers, questionScores, allQuestionsChecked>>

\* handleResetNote(noteId), confirmed: resetNoteQuizData, then
\* setTimeout(() => calculateStats(), 50)
handleResetNote(x) ==
  /\ screen = "dashboard"
  /\ x \in 1..Len(notes)
  /\ resetNoteQuizData(notes[x].id)
  /\ calcPending' = TRUE
  /\ UNCHANGED <<checks, currentUser, notes, nextNoteId, screen, notesData, selectedAnswers,
                 showAnswers, questionScores, allQuestionsChecked, stats>>

\* the 50 ms timer of handleResetNote fires on the mounted Dashboard
RecalculateStats ==
  /\ screen = "dashboard"
  /\ calcPending
  /\ stats' = calculateStats
  /\ calcPending' = FALSE
  /\ UNCHANGED <<checks, storeVars, screen, notesData, selectedAnswers, showAnswers,
                 questionScores, allQuestionsChecked>>

(* --------------------- user profiles (utils/storage.js) ---------------- *)
VARIABLES
  users,              \* localStorage student_notes_users: the list of profiles
  currentUserPointer, \* localStorage student_notes_current_user: a string or null
  userData,           \* localStorage student_notes_user_<id>, by id
  nextUserId          \* the value Date.now() gives to the next profile

profileVars == <<users, currentUserPointer, userData, nextUserId>>

Names == {"ann"}
Emails == {"a@x", "b@x"}
Depths == {"medium", "deep"}
NoPointer == <<>>
NoProfile == [id |-> 0, name |-> "", email |-> ""]

\* userId.toString(): the decimal digits of a positive integer
RECURSIVE IdToString(_)
IdToString(n) ==
  IF n < 10 THEN <<n>> ELSE Append(IdToString(n \div 10), n % 10)

\* parseInt(userId) of a string of decimal digits
RECURSIVE ParseInt(_)
ParseInt(str) ==
  IF Len(str) = 1 THEN str[1]
  ELSE ParseInt(SubSeq(str, 1, Len(str) - 1)) * 10 + str[Len(str)]

\* {...a, ...b}
Merge(a, b) ==
  [f \in (DOMAIN a) \cup (DOMAIN b) |-> IF f \in DOMAIN b THEN b[f] ELSE a[f]]

InitProfiles ==
  /\ users = <<>>
  /\ currentUserPointer = NoPointer
  /\ userData = EmptyObject
  /\ nextUserId = 9

\* getCurrentUser(): the profile the pointer names, or null (NoProfile)
getCurrentUser ==
  IF currentUserPointer = NoPointer THEN NoProfile
  ELSE IF \E x \in 1..Len(users) : users[x].id = ParseInt(currentUserPointer)
       THEN users[CHOOSE x \in 1..Len(users) :
                    /\ users[x].id = ParseInt(currentUserPointer)
                    /\ \A y \in 1..(x - 1) : users[y].id # ParseInt(currentUserPointer)]
       ELSE NoProfile

\* getUserData(userId): the stored partition, or the default one
getUserData(userId) ==
  IF userId \in DOMAIN userData THEN userData[userId]
  ELSE [profile |-> NoProfile, notes |-> <<>>, settings |-> "medium"]

\* handleCreateUser with an email that is taken: createUser throws before it
\* writes, the handler shows the message
createUserRejected(name, email) ==
  /\ \E x \in 1..Len(users) : users[x].email = email
  /\ UNCHANGED profileVars

\* handleCreateUser: createUser(name, email), then switchUser(user.id)
createUser(name, email) ==
  /\ ~\E x \in 1..Len(users) : users[x].email = email
  /\ LET newUser == [id |-> nextUserId, name |-> name, email |-> email]
     IN /\ users' = Append(users, newUser)
        /\ userData' = Put(userData, newUser.id,
                           [profile |-> newUser, notes |-> <<>>, settings |-> "medium"])
        /\ currentUserPointer' = IdToString(newUser.id)
  /\ nextUserId' = nextUserId + 1

\* handleSelectUser(user): switchUser(user.id)
switchUser(userId) ==
  /\ currentUserPointer' = IdToString(userId)
  /\ UNCHANGED <<users, userData, nextUserId>>

\* saveUserProfile(profile): merges profile into the list entry and into the
\* partition of the current user
saveUserProfile(profile) ==
  LET current == getCurrentUser
  IN IF current = NoProfile THEN UNCHANGED profileVars
     ELSE /\ users' = [x \in 1..Len(users) |->
                        IF x = (CHOOSE y \in 1..Len(users) :
                                  /\ users[y].id = current.id
                                  /\ \A z \in 1..(y - 1) : users[z].id # current.id)
                        THEN Merge(users[x], profile) ELSE users[x]]
          /\ userData' = Put(userData, current.id,
                             [getUserData(current.id) EXCEPT
                                !.profile = Merge(@, profile)])
          /\ UNCHANGED <<currentUserPointer, nextUserId>>

\* saveNoteToHistory(note) on the partition of the current user; it throws
\* without one
saveNoteForUser(noteId) ==
  LET current == getCurrentUser
  IN /\ current # NoProfile
     /\ LET all == <<noteId>> \o getUserData(current.id).notes
        IN userData' = Put(userData, current.id,
             [getUserData(current.id) EXCEPT
                !.notes = SubSeq(all, 1, IF Len(all) > NotesCap THEN NotesCap ELSE Len(all))])
     /\ UNCHANGED <<users, currentUserPointer, nextUserId>>

\* saveSettings(settings)
saveSettings(settings) ==
  LET current == getCurrentUser
  IN IF current = NoProfile THEN UNCHANGED profileVars
     ELSE /\ userData' = Put(userData, current.id,
                             [getUserData(current.id) EXCEPT !.settings = settings])
          /\ UNCHANGED <<users, currentUserPointer, nextUserId>>

\* a deletion that always clears the pointer
deleteUserAlwaysClears(userId) ==
  LET Other(u) == u.id # userId
  IN /\ users' = SelectSeq(users, Other)
     /\ userData' = IF userId \in DOMAIN userData THEN Drop(userData, userId) ELSE userData
     /\ currentUserPointer' = NoPointer
     /\ UNCHANGED nextUserId

\* handleDeleteUser(userId), confirmed: deleteUser(userId)
deleteUser(userId) ==
  LET Other(u) == u.id # userId
  IN /\ users' = SelectSeq(users, Other)
     /\ userData' = IF userId \in DOMAIN userData THEN Drop(userData, userId) ELSE userData
     /\ currentUserPointer' = IF currentUserPointer = IdToString(userId)
                               THEN NoPointer ELSE currentUserPointer
     /\ UNCHANGED nextUserId

(* --------------------- double precision arithmetic --------------------- *)
\* a double that is not negative: the 53 binary digits m of its significand,
\* the first of them 1, and the exponent e of the first digit
MantissaBits == 53

\* the binary digits of a natural number, most significant first (none for 0)
RECURSIVE Bin(_)
Bin(n) == IF n = 0 THEN <<>> ELSE Append(Bin(n \div 2), n % 2)

RECURSIVE BitsToInt(_)
BitsToInt(bits) ==
  IF bits = <<>> THEN 0
  ELSE 2 * BitsToInt(SubSeq(bits, 1, Len(bits) - 1)) + bits[Len(bits)]

\* the next n binary digits of r / d (r < d), appended to digits, and the
\* remainder left
RECURSIVE FracBits(_, _, _, _)
FracBits(r, d, n, digits) ==
  IF n = 0 THEN [bits |-> digits, rem |-> r]
  ELSE IF 2 * r >= d
       THEN FracBits(2 * r - d, d, n - 1, Append(digits, 1))
       ELSE FracBits(2 * r, d, n - 1, Append(digits, 0))

\* bits + 1, one digit longer when every digit was 1
RECURSIVE Increment(_)
Increment(bits) ==
  IF bits = <<>> THEN <<1>>
  ELSE IF bits[Len(bits)] = 0 THEN [bits EXCEPT ![Len(bits)] = 1]
  ELSE Append(Increment(SubSeq(bits, 1, Len(bits) - 1)), 0)

Zero == [m |-> <<>>, e |-> 0]

\* round to nearest, ties to even: digits starts with a 1 and is the exact
\* value up to the digits cut off, sticky tells whether a nonzero rest follows
\* the digits; e is the exponent of the first digit
RoundToDouble(digits, sticky, e) ==
  IF Len(digits) <= MantissaBits
  THEN [m |-> digits \o [x \in 1..(MantissaBits - Len(digits)) |-> 0], e |-> e]
  ELSE LET kept == SubSeq(digits, 1, MantissaBits)
           guard == digits[MantissaBits + 1]
           rest == \/ sticky
                   \/ \E x \in (MantissaBits + 2)..Len(digits) : digits[x] = 1
           up == guard = 1 /\ (rest \/ kept[MantissaBits] = 1)
           inc == Increment(kept)
       IN IF ~up THEN [m |-> kept, e |-> e]
          ELSE IF Len(inc) > MantissaBits
               THEN [m |-> SubSeq(inc, 1, MantissaBits), e |-> e + 1]
               ELSE [m |-> inc, e |-> e]

\* the remainder and the count of zero digits before the first 1 of r / d
RECURSIVE SkipZeros(_, _, _)
SkipZeros(r, d, zeros) ==
  IF 2 * r >= d THEN [rem |-> r, zeros |-> zeros]
  ELSE SkipZeros(2 * r, d, zeros + 1)

\* n / d in double precision, for naturals n and d > 0
Divide(n, d) ==
  IF n = 0 THEN Zero
  ELSE LET int == Bin(n \div d)
           r == n % d
       IN IF int # <<>>
          THEN LET f == FracBits(r, d, MantissaBits + 1 - Len(int), <<>>)
               IN RoundToDouble(int \o f.bits, f.rem # 0, Len(int) - 1)
          ELSE LET s == SkipZeros(r, d, 0)
                   f == FracBits(s.rem, d, MantissaBits + 1, <<>>)
               IN RoundToDouble(f.bits, f.rem # 0, -(s.zeros + 1))

\* the n last binary digits of a natural number
LastBits(x, n) == [i \in 1..n |-> (x \div (2 ^ (n - i))) % 2]

LimbBits == 14
Limb == 2 ^ LimbBits

\* the digits of bits * w, for 53 digits and w < 2^17: the product is taken
\* on the limbs of 14 digits, from the last to the first
TimesSmall(bits, w) ==
  LET n == Len(bits)
      l0 == BitsToInt(SubSeq(bits, n - LimbBits + 1, n)) * w
      l1 == BitsToInt(SubSeq(bits, n - 2 * LimbBits + 1, n - LimbBits)) * w + l0 \div Limb
      l2 == BitsToInt(SubSeq(bits, n - 3 * LimbBits + 1, n - 2 * LimbBits)) * w + l1 \div Limb
      l3 == BitsToInt(SubSeq(bits, 1, n - 3 * LimbBits)) * w + l2 \div Limb
  IN Bin(l3) \o LastBits(l2 % Limb, LimbBits) \o LastBits(l1 % Limb, LimbBits)
       \o LastBits(l0 % Limb, LimbBits)

\* w * x in double precision, for a natural w and a double x
Multiply(w, x) ==
  IF w = 0 \/ x = Zero THEN Zero
  ELSE LET product == TimesSmall(x.m, w)
       IN RoundToDouble(product, FALSE, x.e + (Len(product) - Len(x.m)))

\* Math.floor of a double that is not negative
Floor(x) ==
  IF x = Zero \/ x.e < 0 THEN 0
  ELSE BitsToInt(SubSeq(x.m, 1, x.e + 1))

(* --------------------- chunking (utils/textProcessing.js) -------------- *)
VARIABLES
  wordCount,          \* words.length of the normalized text
  maxWords,
  overlapPercent,
  overlapWords,
  startIdx,
  chunks,             \* the slices pushed, as <<from, to>> over the word indexes
  chunkPc             \* "call", "loop" or "returned"

chunkVars == <<wordCount, maxWords, overlapPercent, overlapWords, startIdx, chunks, chunkPc>>

\* the call of processInput: chunkText(normalizedText, 1500, 25)
DefaultMaxWords == 1500
DefaultOverlapPercent == 25

Min(a, b) == IF a < b THEN a ELSE b

\* an index of words.slice: a negative one counts from the end
SliceIndex(i) ==
  IF i < 0 THEN (IF wordCount + i < 0 THEN 0 ELSE wordCount + i)
  ELSE Min(i, wordCount)

\* Math.floor(maxWords * (overlapPercent / 100))
OverlapWords(w, percent) == Floor(Multiply(w, Divide(percent, 100)))

\* no text is being chunked
ChunkerIdle ==
  /\ wordCount = 1
  /\ maxWords = DefaultMaxWords
  /\ overlapPercent = DefaultOverlapPercent
  /\ overlapWords = 0
  /\ startIdx = 0
  /\ chunks = <<>>
  /\ chunkPc = "returned"

\* a call chunkText(text, maxWords, overlapPercent) on a text of about
\* maxWords words
InitChunker ==
  /\ maxWords \in 1..MaxWords
  /\ overlapPercent \in 0..MaxPercent
  /\ wordCount \in (maxWords - MaxExtraWords)..(maxWords + MaxExtraWords)
  /\ wordCount >= 1
  /\ overlapWords = 0
  /\ startIdx = 0
  /\ chunks = <<>>
  /\ chunkPc = "call"

\* chunkText up to the loop: a short text is returned as it is
chunkText ==
  /\ chunkPc = "call"
  /\ IF wordCount <= maxWords
     THEN /\ chunks' = << <<0, wordCount>> >>
          /\ chunkPc' = "returned"
          /\ UNCHANGED overlapWords
     ELSE /\ chunks' = <<>>
          /\ overlapWords' = OverlapWords(maxWords, overlapPercent)
          /\ chunkPc' = "loop"
  /\ startIdx' = 0
  /\ UNCHANGED <<wordCount, maxWords, overlapPercent>>

\* one turn of while (startIdx < words.length) { ... }
ChunkLoop ==
  /\ chunkPc = "loop"
  /\ Len(chunks) < MaxChunks
  /\ IF startIdx < wordCount
     THEN LET endIdx == Min(startIdx + maxWords, wordCount)
          IN /\ chunks' = Append(chunks, <<SliceIndex(startIdx), SliceIndex(endIdx)>>)
             /\ IF endIdx >= wordCount
                THEN chunkPc' = "returned" /\ UNCHANGED startIdx
                ELSE /\ startIdx' = endIdx - overlapWords
                     /\ UNCHANGED chunkPc
     ELSE chunkPc' = "returned" /\ UNCHANGED <<chunks, startIdx>>
  /\ UNCHANGED <<wordCount, maxWords, overlapPercent, overlapWords>>

(* --------------------- content pipeline (App.jsx processInput) --------- *)
VARIABLES
  pipePc,             \* where processInput is suspended: "idle", "single",
                      \* "batch", "pause", "synth", "keypoints", "flashcards",
                      \* "questions"
  chunkCount,         \* chunks.length
  batchStart,         \* i of the batch loop
  inflight,           \* chunk indexes whose generateChunkSummary is pending
  settled,            \* chunk indexes of the batch, in the order they completed
  chunkSummaries,
  synthInput,         \* the argument of synthesizeSummaries
  issued,             \* the invocations of the run, in the order they started
  orphans,            \* pending invocations of a batch whose run has failed
  error,              \* the App state error
  runs                \* pipeline runs started

pipeVars == <<pipePc, chunkCount, batchStart, inflight, settled, chunkSummaries,
              synthInput, issued, orphans, error, runs>>

batchSize == 3
NoMessage == "null"
DefaultMessage == "An error occurred while generating notes. Please try again."
\* the messages callGemini throws with
FailureMessages == {ExhaustedError, "Content blocked by safety filters"}

\* what generateChunkSummary resolves to for chunk k
SummaryOf(k) == <<"summary", k>>

\* batch.map((chunk) => generateChunkSummary(chunk)) for the batch that starts at i
BatchOf(i, c) == {k \in 0..(c - 1) : i <= k /\ k < i + batchSize}

RECURSIVE Ascending(_)
Ascending(set) ==
  IF set = {} THEN <<>>
  ELSE LET least == CHOOSE k \in set : \A o \in set : k <= o
       IN <<least>> \o Ascending(set \ {least})

ChunkCalls(set) == [x \in 1..Cardinality(set) |-> <<"chunk", Ascending(set)[x]>>]

PipelineIdle ==
  /\ pipePc = "idle"
  /\ chunkCount = 0
  /\ batchStart = 0
  /\ inflight = {}
  /\ settled = <<>>
  /\ chunkSummaries = <<>>
  /\ synthInput = <<>>
  /\ issued = <<>>
  /\ orphans = 0
  /\ error = NoMessage
  /\ runs = 0

\* the results in the order the invocations completed
BatchResultsAsCompleted(done) == [x \in 1..Len(done) |-> SummaryOf(done[x])]

\* await Promise.all(...): the results in the order of the batch
BatchResults(done) ==
  LET order == Ascending({done[x] : x \in 1..Len(done)})
  IN [x \in 1..Len(order) |-> SummaryOf(order[x])]

\* a synthesis for every input
NeedsSynthesisAlways(c) == c >= 1

\* chunks.length === 1 takes the direct summary, everything else the batches
\* and synthesizeSummaries
NeedsSynthesis(c) == c # 1

\* processInput(inputData) up to its first await
processInput(c) ==
  /\ screen = "input"
  /\ currentUser # NoUser
  /\ pipePc = "idle"
  /\ runs < MaxRuns
  /\ runs' = runs + 1
  /\ screen' = "loading"
  /\ error' = NoMessage
  /\ chunkCount' = c
  /\ batchStart' = 0
  /\ settled' = <<>>
  /\ chunkSummaries' = <<>>
  /\ synthInput' = <<>>
  /\ IF NeedsSynthesis(c)
     THEN /\ pipePc' = "batch"
          /\ inflight' = BatchOf(0, c)
          /\ issued' = ChunkCalls(BatchOf(0, c))
     ELSE /\ pipePc' = "single"
          /\ inflight' = {0}
          /\ issued' = <<<<"chunk", 0>>>>
  /\ UNCHANGED <<storeVars, notesData, selectedAnswers, showAnswers, questionScores,
                 allQuestionsChecked, stats, calcPending, checks, orphans>>

\* a failure that is answered with a partial note
PipelineFailsWithPartialNote(msg) ==
  /\ error' = IF msg # "" THEN msg ELSE DefaultMessage
  /\ screen' = "error"
  /\ pipePc' = "idle"
  /\ inflight' = {}
  /\ saveNoteToHistory([id |-> nextNoteId, correct |-> <<>>])
  /\ nextNoteId' = nextNoteId + 1
  /\ UNCHANGED <<currentUser, quizResults, quizProgress, notesData, selectedAnswers,
                 showAnswers, questionScores, allQuestionsChecked, stats, calcPending,
                 checks, chunkCount, batchStart, settled, chunkSummaries, synthInput,
                 issued, runs>>

\* the catch block of processInput: setError(err.message || ...),
\* setScreen("error")
PipelineFails(msg) ==
  /\ error' = IF msg # "" THEN msg ELSE DefaultMessage
  /\ screen' = "error"
  /\ pipePc' = "idle"
  /\ inflight' = {}
  /\ UNCHANGED <<storeVars, notesData, selectedAnswers, showAnswers, questionScores,
                 allQuestionsChecked, stats, calcPending, checks, chunkCount,
                 batchStart, settled, chunkSummaries, synthInput, issued, runs>>

\* generateChunkSummary of chunk k resolves
ChunkReturns(k) ==
  /\ k \in inflight
  /\ pipePc \in {"single", "batch"}
  /\ IF pipePc = "single"
     THEN /\ pipePc' = "keypoints"
          /\ inflight' = {}
          /\ issued' = Append(issued, <<"keypoints">>)
          /\ UNCHANGED <<settled, chunkSummaries, synthInput>>
     ELSE /\ inflight' = inflight \ {k}
          /\ IF inflight \ {k} # {}
             THEN /\ settled' = Append(settled, k)
                  /\ UNCHANGED <<pipePc, chunkSummaries, synthInput, issued>>
             ELSE \* Promise.all resolves: chunkSummaries.push(...batchResults)
                  LET all == chunkSummaries \o BatchResults(Append(settled, k))
                  IN /\ settled' = <<>>
                     /\ chunkSummaries' = all
                     /\ IF batchStart + batchSize < chunkCount
                        THEN /\ pipePc' = "pause"
                             /\ UNCHANGED <<synthInput, issued>>
                        ELSE /\ pipePc' = "synth"
                             /\ synthInput' = all
                             /\ issued' = Append(issued, <<"synth">>)
  /\ UNCHANGED <<quizVars, chunkCount, batchStart, orphans, error, runs>>

\* generateChunkSummary of chunk k rejects: the await throws, the other
\* invocations of the batch keep running
ChunkFails(k, msg) ==
  /\ k \in inflight
  /\ pipePc \in {"single", "batch"}
  /\ PipelineFails(msg)
  /\ orphans' = orphans + Cardinality(inflight \ {k})

\* an invocation of a failed run completes: nobody awaits it
OrphanCompletes ==
  /\ orphans > 0
  /\ orphans' = orphans - 1
  /\ UNCHANGED <<quizVars, pipePc, chunkCount, batchStart, inflight, settled,
                 chunkSummaries, synthInput, issued, error, runs>>

\* the 1000 ms timer between two batches fires: the next turn of the loop
PauseDone ==
  /\ pipePc = "pause"
  /\ pipePc' = "batch"
  /\ batchStart' = batchStart + batchSize
  /\ inflight' = BatchOf(batchStart + batchSize, chunkCount)
  /\ issued' = issued \o ChunkCalls(BatchOf(batchStart + batchSize, chunkCount))
  /\ UNCHANGED <<quizVars, chunkCount, settled, chunkSummaries, synthInput, orphans, error, runs>>

\* synthesizeSummaries, extractKeyPoints or generateFlashcards resolves
StageReturns ==
  /\ pipePc \in {"synth", "keypoints", "flashcards"}
  /\ pipePc' = CASE pipePc = "synth" -> "keypoints"
                  [] pipePc = "keypoints" -> "flashcards"
                  [] pipePc = "flashcards" -> "questions"
  /\ issued' = Append(issued, <<pipePc'>>)
  /\ UNCHANGED <<quizVars, chunkCount, batchStart, inflight, settled, chunkSummaries,
                 synthInput, orphans, error, runs>>

\* generatePracticeQuestions resolves: saveNoteToHistory(finalNotesData),
\* setNotesData(savedNote), setScreen("output")
QuestionsReturn(correct) ==
  /\ pipePc = "questions"
  /\ pipePc' = "idle"
  /\ LET savedNote == [id |-> nextNoteId, correct |-> correct]
     IN /\ saveNoteToHistory(savedNote)
        /\ notesData' = savedNote
  /\ nextNoteId' = nextNoteId + 1
  /\ screen' = "output"
  /\ selectedAnswers' = EmptyObject
  /\ showAnswers' = EmptyObject
  /\ questionScores' = EmptyObject
  /\ allQuestionsChecked' = FALSE
  /\ UNCHANGED <<currentUser, quizResults, quizProgress, stats, calcPending, checks,
                 chunkCount, batchStart, inflight, settled, chunkSummaries, synthInput,
                 issued, orphans, error, runs>>

\* the invocation of the stage rejects
StageFails(msg) ==
  /\ pipePc \in {"synth", "keypoints", "flashcards", "questions"}
  /\ PipelineFails(msg)
  /\ UNCHANGED orphans

\* handleRetry: setScreen("input"), setError(null)
handleRetry ==
  /\ screen = "error"
  /\ screen' = "input"
  /\ error' = NoMessage
  /\ UNCHANGED <<storeVars, notesData, selectedAnswers, showAnswers, questionScores,
                 allQuestionsChecked, stats, calcPending, checks, pipePc, chunkCount,
                 batchStart, inflight, settled, chunkSummaries, synthInput, issued,
                 orphans, runs>>

(* --------------------- concurrent invocations and writers -------------- *)
VARIABLES
  tried,              \* history: the pairs each invocation has attempted so far
  tabs,               \* the browser tabs of the user: a save under way, or none
  completedSaves      \* history: the saves that have returned

tabVars == <<tabs, completedSaves>>
raceVars == <<tried, tabVars>>

Tabs == {"tab1", "tab2"}

IdleTab == [pc |-> "idle"]

TabsIdle == tabs = [t \in Tabs |-> IdleTab] /\ completedSaves = {}

RaceIdle == tried = [i \in Invokers |-> {}] /\ TabsIdle

\* the questions the two tabs answer
TabQuestions == 0..(MaxTabQuestions - 1)

\* the note both tabs show
TabNote == [id |-> 1, correct |-> [q \in 1..MaxTabQuestions |-> "A"]]

\* the calls a tab makes: saveQuizResult(result) for a checked answer of the
\* note, and saveQuizProgress(noteId, progress) with the progress of the tab
TabOps ==
  {[kind |-> "saveQuizResult", noteId |-> TabNote.id, questionIndex |-> q,
    userAnswer |-> "A"] : q \in TabQuestions}
  \cup {[kind |-> "saveQuizProgress", noteId |-> TabNote.id, questionIndex |-> q,
         userAnswer |-> "A"] : q \in TabQuestions}

\* the result handleShowAnswer passes to saveQuizResult
ResultOf(op) ==
  LET correct == TabNote.correct[op.questionIndex + 1]
      checked == CheckAnswer(op.userAnswer, correct)
  IN [noteId |-> op.noteId, questionIndex |-> op.questionIndex,
      userAnswer |-> op.userAnswer, correctAnswer |-> correct,
      isCorrect |-> checked.isCorrect, score |-> checked.score]

\* the progress of a tab that has checked the one question of op
ProgressOf(op) ==
  LET one == {op.questionIndex}
  IN [selectedAnswers |-> [q \in one |-> op.userAnswer],
      showAnswers |-> [q \in one |-> TRUE],
      questionScores |-> [q \in one |-> ResultOf(op).score],
      allQuestionsChecked |-> MaxTabQuestions = 1]

\* findIndex, then replace or push, on the parsed copy of the blob
UpsertResult(results, result) ==
  LET SameKey(r) == r.noteId = result.noteId /\ r.questionIndex = result.questionIndex
      existingIndex ==
        IF \E x \in 1..Len(results) : SameKey(results[x])
        THEN CHOOSE x \in 1..Len(results) :
               SameKey(results[x]) /\ \A y \in 1..(x - 1) : ~SameKey(results[y])
        ELSE 0
  IN IF existingIndex # 0
     THEN [results EXCEPT ![existingIndex] = result]
     ELSE Append(results, result)

\* the blob of the user as localStorage holds it
StoredBlob == [quizResults |-> quizResults, quizProgress |-> quizProgress]

\* the first half of a save in tab t: getCurrentUser(), then
\* getUserData(currentUser.id) parses the blob into a copy of the tab
TabReads(t, op) ==
  /\ tabs[t].pc = "idle"
  /\ currentUser # NoUser
  /\ tabs' = [tabs EXCEPT ![t] = [pc |-> "read", op |-> op, copy |-> StoredBlob]]
  /\ UNCHANGED <<quizVars, completedSaves>>

\* a save that reads the blob again when it writes
TabWritesFresh(t) ==
  /\ tabs[t].pc = "read"
  /\ LET op == tabs[t].op
     IN /\ IF op.kind = "saveQuizResult"
           THEN /\ quizResults' = UpsertResult(quizResults, ResultOf(op))
                /\ quizProgress' = quizProgress
           ELSE /\ quizResults' = quizResults
                /\ quizProgress' = Put(quizProgress, op.noteId, ProgressOf(op))
        /\ completedSaves' = completedSaves \cup {op}
  /\ tabs' = [tabs EXCEPT ![t] = IdleTab]
  /\ UNCHANGED <<currentUser, notes, nextNoteId, viewVars>>

\* the second half: the copy is changed and saveUserData(currentUser.id,
\* userData) writes the whole copy back with localStorage.setItem
TabWrites(t) ==
  /\ tabs[t].pc = "read"
  /\ LET op == tabs[t].op
         copy == tabs[t].copy
     IN /\ IF op.kind = "saveQuizResult"
           THEN /\ quizResults' = UpsertResult(copy.quizResults, ResultOf(op))
                /\ quizProgress' = copy.quizProgress
           ELSE /\ quizResults' = copy.quizResults
                /\ quizProgress' = Put(copy.quizProgress, op.noteId, ProgressOf(op))
        /\ completedSaves' = completedSaves \cup {op}
  /\ tabs' = [tabs EXCEPT ![t] = IdleTab]
  /\ UNCHANGED <<currentUser, notes, nextNoteId, viewVars>>

\* invocation i starts an attempt in this step: getNextKeyAndModel ran for it
Attempts(i) ==
  /\ inv'[i].pc = "fetching"
  /\ inv[i].pc # "fetching" \/ inv'[i].attemptCount # inv[i].attemptCount

\* the pairs of the attempts, as the locals of the invocations record them
TrackTried ==
  tried' = [i \in Invokers |->
              IF inv'[i].attemptCount = 0 THEN {}
              ELSE IF Attempts(i)
                   THEN (IF inv'[i].attemptCount = 1 THEN {} ELSE tried[i])
                          \cup {inv'[i].lastPair}
                   ELSE tried[i]]

\* the variables of the parts added after the rotator and the quiz
extraVars == <<profileVars, chunkVars, pipeVars, raceVars>>

InitExtra == InitProfiles /\ ChunkerIdle /\ PipelineIdle /\ RaceIdle

vars == <<rotVars, quizVars, extraVars>>

Init == InitInvoker /\ InitStore /\ InitExtra /\ currentUser = NoUser

\* invocations one after another, every kind of response
Next ==
  \/ callGemini("a") /\ UNCHANGED <<quizVars, extraVars>>
  \/ \E r \in Responses : Respond("a", r) /\ UNCHANGED <<quizVars, extraVars>>
  \/ DelayDone("a") /\ UNCHANGED <<quizVars, extraVars>>

Spec == Init /\ [][Next]_vars

\* concurrent invocations (the chunk summaries of one batch)
ConcResponses == {"429", "t1"}

NextConc ==
  \/ \E i \in Invokers : calls < MaxCalls /\ callGemini(i) /\ UNCHANGED <<quizVars, extraVars>>
  \/ \E i \in Invokers : \E r \in ConcResponses : Respond(i, r) /\ UNCHANGED <<quizVars, extraVars>>

SpecConc == Init /\ [][NextConc]_vars

\* the same invocations, with the record of the pairs each one attempted
NextRace ==
  \/ \E i \in Invokers :
       /\ calls < MaxCalls
       /\ callGemini(i)
       /\ TrackTried
       /\ UNCHANGED <<quizVars, profileVars, chunkVars, pipeVars, tabVars>>
  \/ \E i \in Invokers : \E r \in ConcResponses :
       /\ Respond(i, r)
       /\ TrackTried
       /\ UNCHANGED <<quizVars, profileVars, chunkVars, pipeVars, tabVars>>

SpecRace == Init /\ [][NextRace]_vars

\* two tabs of one user that show the same note and save results and progress
InitTabs ==
  /\ InitInvoker
  /\ numKeys = 1
  /\ numModels = 1
  /\ InitStore
  /\ InitExtra
  /\ currentUser = "u1"

NextTabs ==
  \/ \E t \in Tabs : \E op \in TabOps :
       TabReads(t, op) /\ UNCHANGED <<rotVars, profileVars, chunkVars, pipeVars, tried>>
  \/ \E t \in Tabs :
       TabWrites(t) /\ UNCHANGED <<rotVars, profileVars, chunkVars, pipeVars, tried>>

SpecTabs == InitTabs /\ [][NextTabs]_vars

\* the quiz, the profile store and the dashboard of one user
InitQuiz ==
  /\ InitExtra
  /\ InitStore
  /\ InitInvoker
  /\ numKeys = 1
  /\ numModels = 1

NextQuiz ==
  \/ \E correct \in QuestionSheets(nextNoteId) : GenerateNote(correct) /\ UNCHANGED <<rotVars, extraVars>>
  \/ \E x \in 1..MaxNotes : ViewNote(x) /\ UNCHANGED <<rotVars, extraVars>>
  \/ \E q \in QuestionIndexes : \E o \in Options : handleAnswerSelect(q, o) /\ UNCHANGED <<rotVars, extraVars>>
  \/ \E q \in QuestionIndexes : handleShowAnswer(q) /\ UNCHANGED <<rotVars, extraVars>>
  \/ handleResetQuestions /\ UNCHANGED <<rotVars, extraVars>>
  \/ handleBack /\ UNCHANGED <<rotVars, extraVars>>
  \/ OpenDashboard /\ UNCHANGED <<rotVars, extraVars>>
  \/ CloseDashboard /\ UNCHANGED <<rotVars, extraVars>>
  \/ \E x \in 1..MaxNotes : handleDeleteNote(x) /\ UNCHANGED <<rotVars, extraVars>>
  \/ \E x \in 1..MaxNotes : handleResetNote(x) /\ UNCHANGED <<rotVars, extraVars>>
  \/ RecalculateStats /\ UNCHANGED <<rotVars, extraVars>>

SpecQuiz == InitQuiz /\ [][NextQuiz]_vars

\* the dashboard of a user who has answered some of the questions of a note;
\* the stored results are the input of calculateStats and getNotePerformance
InitStats ==
  /\ InitExtra
  /\ InitInvoker
  /\ numKeys = 1
  /\ numModels = 1
  /\ currentUser = "u1"
  /\ \E correct \in [1..MaxResults -> Options] :
       \E given \in [1..MaxResults -> Options \cup {NotAnswered}] :
         LET note == [id |-> 1, correct |-> correct]
             results == AnsweredFrom(note, given, 0)
         IN /\ notes = <<note>>
            /\ quizResults = results
            /\ quizProgress = IF results = <<>> THEN EmptyObject
                              ELSE Put(EmptyObject, note.id, ProgressAfter(note, given))
  /\ nextNoteId = 2
  /\ screen = "input"
  /\ notesData = NoNote
  /\ selectedAnswers = EmptyObject
  /\ showAnswers = EmptyObject
  /\ questionScores = EmptyObject
  /\ allQuestionsChecked = FALSE
  /\ stats = InitialStats
  /\ calcPending = FALSE
  /\ checks = 0

NextStats ==
  \/ OpenDashboard /\ UNCHANGED <<rotVars, extraVars>>
  \/ CloseDashboard /\ UNCHANGED <<rotVars, extraVars>>
  \/ handleDeleteNote(1) /\ UNCHANGED <<rotVars, extraVars>>
  \/ handleResetNote(1) /\ UNCHANGED <<rotVars, extraVars>>
  \/ RecalculateStats /\ UNCHANGED <<rotVars, extraVars>>

SpecStats == InitStats /\ [][NextStats]_vars

\* a user whose history is full: NotesCap notes saved earlier, the oldest one
\* with checked answers. Note ids are timestamps that are only compared for
\* equality; the notes saved before the run carry the ids -1 (the newest) down
\* to -NotesCap (the oldest), and the run goes on with id 1.
SavedEarlier(x) ==
  [id |-> 0 - x, correct |-> CHOOSE correct \in QuestionSheets(x) : TRUE]

InitCap ==
  /\ InitExtra
  /\ InitInvoker
  /\ numKeys = 1
  /\ numModels = 1
  /\ currentUser = "u1"
  /\ notes = [x \in 1..NotesCap |-> SavedEarlier(x)]
  /\ \E given \in [1..QCount -> Options \cup {NotAnswered}] :
       LET oldest == SavedEarlier(NotesCap)
           results == AnsweredFrom(oldest, given, 0)
       IN /\ quizResults = results
          /\ quizProgress = IF results = <<>> THEN EmptyObject
                            ELSE Put(EmptyObject, oldest.id, ProgressAfter(oldest, given))
  /\ nextNoteId = 1
  /\ screen = "input"
  /\ notesData = NoNote
  /\ selectedAnswers = EmptyObject
  /\ showAnswers = EmptyObject
  /\ questionScores = EmptyObject
  /\ allQuestionsChecked = FALSE
  /\ stats = InitialStats
  /\ calcPending = FALSE
  /\ checks = 0

NextCap ==
  \/ \E correct \in QuestionSheets(nextNoteId) : GenerateNote(correct) /\ UNCHANGED <<rotVars, extraVars>>
  \/ \E x \in {1, Len(notes)} : ViewNote(x) /\ UNCHANGED <<rotVars, extraVars>>
  \/ \E q \in QuestionIndexes : \E o \in Options : handleAnswerSelect(q, o) /\ UNCHANGED <<rotVars, extraVars>>
  \/ \E q \in QuestionIndexes : handleShowAnswer(q) /\ UNCHANGED <<rotVars, extraVars>>
  \/ handleResetQuestions /\ UNCHANGED <<rotVars, extraVars>>
  \/ handleBack /\ UNCHANGED <<rotVars, extraVars>>
  \/ OpenDashboard /\ UNCHANGED <<rotVars, extraVars>>
  \/ CloseDashboard /\ UNCHANGED <<rotVars, extraVars>>

SpecCap == InitCap /\ [][NextCap]_vars

\* a run on two chunks whose chunk summaries are the invocations "a" and "b"
\* of callGemini: batch.map((chunk) => generateChunkSummary(chunk)) starts
\* both up to their first fetch before processInput awaits Promise.all
InvokerChunk(i) == IF i = "a" THEN 0 ELSE 1

InitBatch ==
  /\ InitInvoker
  /\ numKeys >= 1
  /\ InitStore
  /\ InitExtra
  /\ currentUser = "u1"

StartRun ==
  /\ processInput(Cardinality(Invokers))
  /\ UNCHANGED <<rotVars, profileVars, chunkVars, raceVars>>

\* generateChunkSummary(chunk) of the map, in the order of the batch
BatchCall(i) ==
  /\ pipePc = "batch"
  /\ InvokerChunk(i) \in inflight
  /\ inv[i].pc = "idle"
  /\ \A j \in Invokers : InvokerChunk(j) < InvokerChunk(i) => inv[j].pc # "idle"
  /\ callGemini(i)
  /\ UNCHANGED <<quizVars, extraVars>>

\* the fetch of an invocation of the batch settles; when the invocation
\* completes, its promise settles: Promise.all counts it, or rejects, or
\* nobody awaits it any more
BatchResponse(i, r) ==
  /\ \A j \in Invokers : inv[j].pc # "idle"
  /\ Respond(i, r)
  /\ IF pipePc = "batch" /\ InvokerChunk(i) \in inflight
     THEN CASE inv'[i].pc = "returned" -> ChunkReturns(InvokerChunk(i))
            [] inv'[i].pc = "failed" -> ChunkFails(InvokerChunk(i), inv'[i].error)
            [] OTHER -> UNCHANGED <<quizVars, pipeVars>>
     ELSE IF inv'[i].pc \in {"returned", "failed"}
          THEN OrphanCompletes
          ELSE UNCHANGED <<quizVars, pipeVars>>
  /\ UNCHANGED <<profileVars, chunkVars, raceVars>>

NextBatch ==
  \/ StartRun
  \/ \E i \in Invokers : BatchCall(i)
  \/ \E i \in Invokers : \E r \in ConcResponses : BatchResponse(i, r)

SpecBatch == InitBatch /\ [][NextBatch]_vars

\* the user management dialog and the profile store
InitUsers ==
  /\ InitInvoker
  /\ numKeys = 1
  /\ numModels = 1
  /\ InitStore
  /\ currentUser = NoUser
  /\ InitExtra

ProfilePatches ==
  {p \in UNION {[d -> Names \cup Emails] : d \in (SUBSET {"name", "email"}) \ {{}}} :
     /\ ("name" \in DOMAIN p => p["name"] \in Names)
     /\ ("email" \in DOMAIN p => p["email"] \in Emails)}

NextUsers ==
  \/ \E name \in Names : \E email \in Emails :
       nextUserId < 9 + MaxUsers /\ createUser(name, email) /\ UNCHANGED <<rotVars, quizVars, chunkVars, pipeVars, raceVars>>
  \/ \E name \in Names : \E email \in Emails :
       createUserRejected(name, email) /\ UNCHANGED <<rotVars, quizVars, chunkVars, pipeVars, raceVars>>
  \/ \E x \in 1..Len(users) : switchUser(users[x].id) /\ UNCHANGED <<rotVars, quizVars, chunkVars, pipeVars, raceVars>>
  \/ \E x \in 1..Len(users) : deleteUser(users[x].id) /\ UNCHANGED <<rotVars, quizVars, chunkVars, pipeVars, raceVars>>
  \/ \E profile \in ProfilePatches : saveUserProfile(profile) /\ UNCHANGED <<rotVars, quizVars, chunkVars, pipeVars, raceVars>>
  \/ (Len(getUserData(getCurrentUser.id).notes) < MaxNotes
        /\ saveNoteForUser(Len(getUserData(getCurrentUser.id).notes) + 1)
        /\ UNCHANGED <<rotVars, quizVars, chunkVars, pipeVars, raceVars>>)
  \/ \E settings \in Depths : saveSettings(settings) /\ UNCHANGED <<rotVars, quizVars, chunkVars, pipeVars, raceVars>>

SpecUsers == InitUsers /\ [][NextUsers]_vars

\* chunkText on its own
InitChunk ==
  /\ InitInvoker
  /\ numKeys = 1
  /\ numModels = 1
  /\ InitStore
  /\ currentUser = NoUser
  /\ InitProfiles
  /\ PipelineIdle
  /\ RaceIdle
  /\ InitChunker

NextChunk ==
  \/ chunkText /\ UNCHANGED <<rotVars, quizVars, profileVars, pipeVars, raceVars>>
  \/ ChunkLoop /\ UNCHANGED <<rotVars, quizVars, profileVars, pipeVars, raceVars>>

SpecChunk == InitChunk /\ [][NextChunk]_vars

\* the pipeline and the screens around it
InitPipe ==
  /\ InitInvoker
  /\ numKeys = 1
  /\ numModels = 1
  /\ InitStore
  /\ currentUser = "u1"
  /\ InitExtra

NextPipe ==
  \/ \E c \in 1..MaxChunkCount : processInput(c) /\ UNCHANGED <<rotVars, profileVars, chunkVars, raceVars>>
  \/ \E k \in 0..(MaxChunkCount - 1) : ChunkReturns(k) /\ UNCHANGED <<rotVars, profileVars, chunkVars, raceVars>>
  \/ \E k \in 0..(MaxChunkCount - 1) : \E msg \in FailureMessages :
       ChunkFails(k, msg) /\ UNCHANGED <<rotVars, profileVars, chunkVars, raceVars>>
  \/ OrphanCompletes /\ UNCHANGED <<rotVars, profileVars, chunkVars, raceVars>>
  \/ PauseDone /\ UNCHANGED <<rotVars, profileVars, chunkVars, raceVars>>
  \/ StageReturns /\ UNCHANGED <<rotVars, profileVars, chunkVars, raceVars>>
  \/ \E correct \in QuestionSheets(nextNoteId) :
       QuestionsReturn(correct) /\ UNCHANGED <<rotVars, profileVars, chunkVars, raceVars>>
  \/ \E msg \in FailureMessages : StageFails(msg) /\ UNCHANGED <<rotVars, profileVars, chunkVars, raceVars>>
  \/ handleRetry /\ UNCHANGED <<rotVars, profileVars, chunkVars, raceVars>>
  \/ handleBack /\ UNCHANGED <<rotVars, extraVars>>

SpecPipe == InitPipe /\ [][NextPipe]_vars

(* ============================ properties =============================== *)
Distinct(s) == \A x, y \in 1..Len(s) : x # y => s[x] # s[y]

Consecutive(s) == \A x \in 1..(Len(s) - 1) : s[x + 1] = RotationSucc(s[x])

\* C1: any numKeys*numModels consecutive calls of getNextKeyAndModel return
\* pairwise distinct (credential, model) pairs: the window of the last
\* numKeys*numModels pairs handed out never holds a pair twice.
C1_PairsDistinctPerCycle ==
  /\ Len(handed) <= totalCombinations
  /\ Distinct(handed)
  /\ \A x \in 1..Len(handed) : handed[x][1] \in 0..(numKeys - 1) /\ handed[x][2] \in 0..(numModels - 1)

\* a full window of 4 pairs that starts in the middle of a cycle
C1_Witness ==
  /\ numKeys = 2 /\ numModels = 2
  /\ Len(handed) = totalCombinations
  /\ handed[1] = <<1, 0>>

\* C2 (as stated): an attempt k < N*M answered by a status other than 429,
\* 403, 404, 400 makes the invocation fail at once, after exactly k attempts.
C2_FatalStatusFailsAtOnce ==
  \A i \in Invokers :
    (inv[i].fatalKind \in OtherStatus /\ inv[i].fatalAt < totalCombinations)
      => /\ inv[i].pc = "failed"
         /\ inv[i].attemptCount = inv[i].fatalAt
         /\ inv[i].error = Reason(inv[i].fatalKind)

\* C2 (amended): such an attempt does not end the invocation. The error is
\* recorded as the last failure and the rotation goes on (after the 500 ms
\* delay unless the message matches a rate-limit pattern); the invocation
\* fails only after exactly N*M attempts, with the last recorded failure.
C2_FatalStatusKeepsRotating ==
  \A i \in Invokers :
    (inv[i].fatalKind \in OtherStatus /\ inv[i].fatalAt < totalCombinations)
      => /\ inv[i].attemptCount = inv[i].fatalAt
              => /\ inv[i].pc = "delay"
                 /\ inv[i].fatalKind = "500"
                 /\ inv[i].lastError = Reason(inv[i].fatalKind)
         /\ inv[i].pc = "failed"
              => /\ inv[i].attemptCount = totalCombinations
                 /\ inv[i].error = inv[i].lastError
         /\ inv[i].pc = "returned" => inv[i].attemptCount > inv[i].fatalAt

\* status 500 on attempt 1 of 4, and the invocation failed only after attempt 4
C2_Witness ==
  /\ totalCombinations = 4
  /\ inv["a"].pc = "failed"
  /\ inv["a"].fatalKind = "500" /\ inv["a"].fatalAt = 1
  /\ inv["a"].attemptCount = 4

C4_All429Exhausts ==
  \A i \in Invokers :
    (inv[i].pc = "failed" /\ inv[i].only429 /\ inv[i].alone /\ numKeys > 0)
      => /\ inv[i].attemptCount = totalCombinations
         /\ Len(inv[i].pairs) = totalCombinations
         /\ Distinct(inv[i].pairs)
         /\ inv[i].error = "Rate limit: 429"
         /\ inv[i].error = inv[i].lastError

\* a lone invocation failed after 4 attempts that all got 429, while an earlier
\* invocation had moved the cursor
C4_Witness ==
  /\ totalCombinations = 4
  /\ inv["a"].pc = "failed" /\ inv["a"].only429 /\ inv["a"].alone
  /\ inv["a"].pairs[1] # <<0, 0>>

C6_NoKeysFailsAtOnce ==
  numKeys = 0
    => /\ currentKeyIndex = 0 /\ currentModelIndex = 0
       /\ handed = <<>>
       /\ \A i \in Invokers :
            /\ inv[i].pc \in {"idle", "failed"}
            /\ inv[i].pc = "failed" => inv[i].error = ConfigError
            /\ inv[i].attemptCount = 0
            /\ inv[i].pairs = <<>>

C6_Witness == numKeys = 0 /\ inv["a"].pc = "failed"

C8_DocumentedFlow ==
  \A i \in Invokers : \A j \in 1..Len(inv[i].pairs) :
    inv[i].pairs[j] = <<(j - 1) \div numModels, (j - 1) % numModels>>

\* C9: checking an answer scores +1 with isCorrect exactly when the selected
\* option is the question's correct option and -1 without isCorrect otherwise,
\* in every stored QuizResult and in the scores the open note shows.
C9_ScoreIsPlusOrMinusOne ==
  /\ \A x \in 1..Len(quizResults) :
       LET r == quizResults[x]
       IN /\ r.score \in {-1, 1}
          /\ r.score = 1 <=> r.isCorrect
          /\ r.isCorrect <=> r.userAnswer = r.correctAnswer
          /\ \A y \in 1..Len(notes) :
               notes[y].id = r.noteId => r.correctAnswer = notes[y].correct[r.questionIndex + 1]
  /\ \A q \in DOMAIN questionScores :
       questionScores[q] =
         IF selectedAnswers[q] = notesData.correct[q + 1] THEN 1 ELSE -1

\* a right and a wrong answer are stored
C9_Witness ==
  \E x, y \in 1..Len(quizResults) :
    /\ quizResults[x].score = 1 /\ quizResults[x].userAnswer = quizResults[x].correctAnswer
    /\ quizResults[y].score = -1 /\ quizResults[y].userAnswer # quizResults[y].correctAnswer

\* the signed total of a list of results, counted result by result
SignedTotal(results) ==
  Cardinality({x \in 1..Len(results) : results[x].score = 1})
    - Cardinality({x \in 1..Len(results) : results[x].score = -1})

\* C10 (as stated): for N >= 1 results of signed total S the percentage is
\* exactly ((S + N) / (2N)) * 100; percentages are in tenths of a percent.
ExactPercentage(p10, S, N) == p10 * 2 * N = (S + N) * 1000

C10_PercentageExact ==
  /\ stats.questionsAttempted > 0
       => ExactPercentage(stats.averageScore10, stats.totalMarks, stats.questionsAttempted)
  /\ screen = "dashboard" =>
       \A y \in 1..Len(notes) :
         LET perf == getNotePerformance(notes[y].id)
         IN perf.attempted > 0 => ExactPercentage(perf.percentage10, perf.score, perf.attempted)

\* C10 (amended): the percentage is ((S + N) / (2N)) * 100 rounded to one
\* decimal place, lies in [0, 100], is 0, 50 and 100 for S = -N, 0 and N, and
\* is 0 without a division when N = 0.
RoundedPercentage(p10, S, N) ==
  /\ p10 * 2 * N - (S + N) * 1000 <= N
  /\ (S + N) * 1000 - p10 * 2 * N <= N
  /\ p10 \in 0..1000
  /\ S = -N => p10 = 0
  /\ S = 0 => p10 = 500
  /\ S = N => p10 = 1000

C10_PercentageRounded ==
  /\ stats.questionsAttempted > 0
       => RoundedPercentage(stats.averageScore10, stats.totalMarks, stats.questionsAttempted)
  /\ stats.questionsAttempted = 0 => stats.averageScore10 = 0
  /\ (screen = "dashboard" /\ ~calcPending)
       => /\ stats.questionsAttempted = Len(getQuizResults)
          /\ stats.totalMarks = SignedTotal(getQuizResults)
  /\ \A y \in 1..Len(notes) :
       LET perf == getNotePerformance(notes[y].id)
           OfNote(r) == r.noteId = notes[y].id
           noteResults == SelectSeq(getQuizResults, OfNote)
       IN /\ perf.attempted = Len(noteResults)
          /\ perf.score = SignedTotal(noteResults)
          /\ perf.attempted > 0
               => RoundedPercentage(perf.percentage10, perf.score, perf.attempted)

\* the dashboard shows 66.7 for two right answers out of three
C10_Witness ==
  /\ screen = "dashboard"
  /\ stats.questionsAttempted = 3 /\ stats.totalMarks = 1
  /\ stats.averageScore10 = 667

\* the state of question q of the open note, read from the component state
QuestionState(sel, shown, q) ==
  IF q \in DOMAIN shown THEN "Checked"
  ELSE IF q \in DOMAIN sel THEN "Selected"
  ELSE "Unanswered"

OpenQuestions == 0..(Len(notesData.correct) - 1)

\* a checked question has a selection and a score, and the saved progress of
\* the note holds the same selection, flag and score
CheckedIsSettled ==
  screen = "output" =>
    \A q \in OpenQuestions :
      q \in DOMAIN showAnswers =>
        /\ q \in DOMAIN selectedAnswers
        /\ q \in DOMAIN questionScores
        /\ HasQuizProgress(notesData.id)
        /\ LET saved == quizProgress[notesData.id]
           IN /\ q \in DOMAIN saved.showAnswers
              /\ q \in DOMAIN saved.selectedAnswers
              /\ q \in DOMAIN saved.questionScores
              /\ saved.selectedAnswers[q] = selectedAnswers[q]
              /\ saved.questionScores[q] = questionScores[q]

\* a step of the open note: every question makes one of the three
\* transitions or keeps its state, or the whole note is cleared at once
QuestionStep ==
  (screen = "output" /\ screen' = "output" /\ notesData' = notesData) =>
    \/ \A q \in OpenQuestions :
         LET before == QuestionState(selectedAnswers, showAnswers, q)
             after == QuestionState(selectedAnswers', showAnswers', q)
         IN \/ before = "Unanswered" /\ after \in {"Unanswered", "Selected"}
            \/ before = "Selected" /\ after \in {"Selected", "Checked"}
                 /\ (after = "Checked" => selectedAnswers'[q] = selectedAnswers[q])
            \/ before = "Checked" /\ after = "Checked"
                 /\ selectedAnswers'[q] = selectedAnswers[q]
                 /\ showAnswers'[q] = showAnswers[q]
                 /\ questionScores'[q] = questionScores[q]
    \/ /\ selectedAnswers' = EmptyObject
       /\ showAnswers' = EmptyObject
       /\ questionScores' = EmptyObject
       /\ HasQuizProgress(notesData.id)'
       /\ quizProgress'[notesData.id].selectedAnswers = EmptyObject
       /\ quizProgress'[notesData.id].showAnswers = EmptyObject
       /\ quizProgress'[notesData.id].questionScores = EmptyObject

\* C11: a question of the open note is Unanswered, Selected or Checked; the
\* only transitions are Unanswered -> Selected, Selected -> Selected and
\* Selected -> Checked; a checked question has a selection, and its selection,
\* flag and score stay as they are until a reset clears all questions at once.
C11_QuestionTransitions == CheckedIsSettled /\ [][CheckedIsSettled' /\ QuestionStep]_vars

\* a question checked again after a reset: its stored result and its checked
\* selection are both there
C11_Witness ==
  /\ screen = "output"
  /\ 0 \in DOMAIN showAnswers
  /\ checks = 2
  /\ Len(quizResults) = 1
  /\ quizResults[1].noteId = notesData.id

\* the stored quiz data of the notes other than noteId is the same before and
\* after the step
OtherNotesQuizUnchanged(noteId) ==
  LET Other(r) == r.noteId # noteId
  IN /\ SelectSeq(quizResults', Other) = SelectSeq(quizResults, Other)
     /\ (DOMAIN quizProgress') \ {noteId} = (DOMAIN quizProgress) \ {noteId}
     /\ \A n \in (DOMAIN quizProgress) \ {noteId} : quizProgress'[n] = quizProgress[n]

\* the stored progress of noteId has no selection, no flag and no score
ProgressCleared(noteId) ==
  noteId \in DOMAIN quizProgress' =>
    /\ quizProgress'[noteId].selectedAnswers = EmptyObject
    /\ quizProgress'[noteId].showAnswers = EmptyObject
    /\ quizProgress'[noteId].questionScores = EmptyObject
    /\ quizProgress'[noteId].allQuestionsChecked = FALSE

ResetStep ==
  /\ handleResetQuestions =>
       /\ ProgressCleared(notesData.id)
       /\ OtherNotesQuizUnchanged(notesData.id)
       /\ \A q \in OpenQuestions :
            QuestionState(selectedAnswers', showAnswers', q) = "Unanswered"
       /\ questionScores' = EmptyObject
       /\ notes' = notes
  /\ \A x \in 1..Len(notes) :
       handleResetNote(x) =>
         /\ ProgressCleared(notes[x].id)
         /\ OtherNotesQuizUnchanged(notes[x].id)
         /\ notes' = notes

\* C12: the in-note reset and the dashboard reset leave the note without a
\* stored selection, flag or score, every question Unanswered, and the quiz
\* progress and results of every other note as they were.
C12_ResetClearsOnlyThatNote == [][ResetStep]_vars

\* right after a dashboard reset: the reset note has no quiz data left while
\* the other note still has its result and its progress
C12_Witness ==
  /\ screen = "dashboard"
  /\ calcPending
  /\ Len(notes) = 2
  /\ Len(quizResults) = 1
  /\ \E x, y \in 1..2 :
       /\ notes[x].id \notin DOMAIN quizProgress
       /\ notes[y].id \in DOMAIN quizProgress
       /\ quizResults[1].noteId = notes[y].id
       /\ stats.questionsAttempted = 2

DeleteStep ==
  \A x \in 1..Len(notes) :
    handleDeleteNote(x) =>
      LET noteId == notes[x].id
          OtherNote(note) == note.id # noteId
      IN /\ \A y \in 1..Len(notes') : notes'[y].id # noteId
         /\ \A y \in 1..Len(quizResults') : quizResults'[y].noteId # noteId
         /\ noteId \notin DOMAIN quizProgress'
         /\ notes' = SelectSeq(notes, OtherNote)
         /\ OtherNotesQuizUnchanged(noteId)

\* C13: deleting a note removes the note, its quiz results and its quiz
\* progress, and leaves every other note, with its results and progress, as
\* it was.
C13_DeleteRemovesOnlyThatNote == [][DeleteStep]_vars

\* both notes were answered and one of them was deleted: the other one is
\* left with its result and its progress
C13_Witness ==
  /\ screen = "dashboard"
  /\ nextNoteId = 3
  /\ checks = 2
  /\ Len(notes) = 1
  /\ Len(quizResults) = 1
  /\ quizResults[1].noteId = notes[1].id
  /\ DOMAIN quizProgress = {notes[1].id}
  /\ stats.questionsAttempted = 1

ResultKeys(results) ==
  {<<results[x].noteId, results[x].questionIndex>> : x \in 1..Len(results)}

UniqueResultKeys ==
  \A x, y \in 1..Len(quizResults) :
    (quizResults[x].noteId = quizResults[y].noteId
       /\ quizResults[x].questionIndex = quizResults[y].questionIndex) => x = y

\* a checked answer replaces the stored result of its key, or is added when
\* the key has none
SaveResultStep ==
  \A q \in OpenQuestions :
    handleShowAnswer(q) =>
      LET key == <<notesData.id, q>>
      IN /\ key \in ResultKeys(quizResults')
         /\ IF key \in ResultKeys(quizResults)
            THEN /\ Len(quizResults') = Len(quizResults)
                 /\ StatsOf(quizResults').questionsAttempted
                      = StatsOf(quizResults).questionsAttempted
                 /\ \A x \in 1..Len(quizResults) :
                      IF <<quizResults[x].noteId, quizResults[x].questionIndex>> = key
                      THEN /\ quizResults'[x].userAnswer = selectedAnswers[q]
                           /\ quizResults'[x].noteId = notesData.id
                           /\ quizResults'[x].questionIndex = q
                      ELSE quizResults'[x] = quizResults[x]
            ELSE /\ Len(quizResults') = Len(quizResults) + 1
                 /\ SubSeq(quizResults', 1, Len(quizResults)) = quizResults

\* C14: quizResults holds at most one entry per (noteId, questionIndex); a
\* result saved for an existing key replaces that entry and leaves the number
\* of results, and so the number of attempts of the aggregate, unchanged.
C14_OneResultPerQuestion ==
  UniqueResultKeys /\ [][UniqueResultKeys' /\ SaveResultStep]_vars

\* the only question of the only note was checked, reset in the note and
\* checked again: one result is stored
C14_Witness ==
  /\ screen = "output"
  /\ nextNoteId = 2
  /\ checks = 2
  /\ 0 \in DOMAIN showAnswers
  /\ Len(quizResults) = 1
  /\ quizResults[1].userAnswer = selectedAnswers[0]
  /\ quizResults[1].score = -1

DeleteUserStep ==
  \A x \in 1..Len(users) :
    deleteUser(users[x].id) =>
      LET userId == users[x].id
          Other(u) == u.id # userId
      IN /\ \A y \in 1..Len(users') : users'[y].id # userId
         /\ users' = SelectSeq(users, Other)
         /\ userId \notin DOMAIN userData'
         /\ DOMAIN userData' = (DOMAIN userData) \ {userId}
         /\ \A o \in DOMAIN userData' : userData'[o] = userData[o]
         /\ IF getCurrentUser.id = userId
            THEN currentUserPointer' = NoPointer
            ELSE currentUserPointer' = currentUserPointer

\* C15: deleteUser(u) removes u from the users list and removes u's whole
\* partition; the pointer to the current user is cleared exactly when u was
\* the current user; the other profiles and partitions stay as they were.
C15_DeleteUserCascades == [][DeleteUserStep]_vars

\* two profiles were created and the one that is not current was deleted: the
\* current one is still selected and still has its note
C15_Witness ==
  /\ nextUserId = 11
  /\ Len(users) = 1
  /\ getCurrentUser = users[1]
  /\ DOMAIN userData = {users[1].id}
  /\ userData[users[1].id].notes # <<>>
  /\ userData[users[1].id].settings = "deep"

UniqueEmails ==
  \A x, y \in 1..Len(users) : users[x].email = users[y].email => x = y

\* C16: no two profiles of the users list have the same email, and a
\* createUser with an email that is present leaves the store unchanged.
C16_EmailsUnique ==
  /\ []UniqueEmails
  /\ [][\A name \in Names : \A email \in Emails :
          createUserRejected(name, email) => UNCHANGED profileVars]_vars

\* C17: with O = floor(W * overlapPercent / 100), a text of W words yields
\* the one chunk 0..W-1, and a text of W + 1 words yields exactly two chunks,
\* words 0..W-1 and the words from W - O to the last one.
C17_ChunkBoundaries ==
  LET W == maxWords
      O == (W * overlapPercent) \div 100
  IN /\ (wordCount = W /\ chunkPc = "returned") => chunks = << <<0, W>> >>
     /\ wordCount = W + 1 =>
          /\ Len(chunks) <= 2
          /\ chunkPc = "returned" => chunks = << <<0, W>>, <<W - O, W + 1>> >>

\* the summaries of the chunks 0..n-1, in the order of the chunks
InChunkOrder(n) == [x \in 1..n |-> SummaryOf(x - 1)]

\* C18: at most 3 chunk summaries are pending at a time, all of one batch; a
\* batch is in flight only when the summaries of all earlier chunks have been
\* collected; the collected summaries, and the argument of the synthesis, are
\* in the order of the chunks whatever the order of completion.
C18_BatchesInOrder ==
  /\ Cardinality(inflight) <= 3
  /\ pipePc \in {"batch", "pause"} => Len(chunkSummaries) = batchStart + (IF pipePc = "pause" THEN 3 ELSE 0)
  /\ pipePc = "batch" =>
       /\ inflight # {}
       /\ inflight \cup {settled[x] : x \in 1..Len(settled)}
            = {k \in 0..(chunkCount - 1) : batchStart <= k /\ k < batchStart + 3}
       /\ Len(settled) + Cardinality(inflight) <= 3
  /\ pipePc \notin {"batch", "single"} => inflight = {}
  /\ chunkSummaries = InChunkOrder(Len(chunkSummaries))
  /\ pipePc = "synth" => synthInput = InChunkOrder(chunkCount)

\* the second batch is running: the three summaries of the first batch are
\* collected and the fourth chunk is being summarized
C18_Witness ==
  /\ pipePc = "batch"
  /\ chunkCount = 4
  /\ batchStart = 3
  /\ inflight = {3}
  /\ chunkSummaries = InChunkOrder(3)

\* the invocations of a successful run on c chunks
ExpectedCalls(c) ==
  [x \in 1..c |-> <<"chunk", x - 1>>]
    \o (IF c > 1 THEN <<<<"synth">>>> ELSE <<>>)
    \o <<<<"keypoints">>, <<"flashcards">>, <<"questions">>>>

IsPrefix(a, b) == Len(a) <= Len(b) /\ a = SubSeq(b, 1, Len(a))

\* C19: a run on c chunks issues the c chunk summaries, then one synthesis
\* exactly when c > 1, then key points, flashcards and questions, one after
\* the other; a stage is pending only when nothing else of the run is.
C19_StagesInOrder ==
  /\ runs > 0 => IsPrefix(issued, ExpectedCalls(chunkCount))
  /\ pipePc \in {"synth", "keypoints", "flashcards", "questions"} =>
       /\ inflight = {}
       /\ issued[Len(issued)] = <<pipePc>>
       /\ Cardinality({x \in 1..Len(issued) : issued[x] = <<pipePc>>}) = 1
  /\ pipePc = "synth" => Len(chunkSummaries) = chunkCount /\ chunkCount > 1
  /\ pipePc \in {"single", "batch", "pause"} =>
       \A x \in 1..Len(issued) : issued[x][1] = "chunk"
  /\ (screen = "output" /\ pipePc = "idle") => issued = ExpectedCalls(chunkCount)

\* a run on four chunks has succeeded after a run on one chunk
C19_Witness ==
  /\ screen = "output"
  /\ pipePc = "idle"
  /\ chunkCount = 4
  /\ Len(issued) = 8
  /\ Len(notes) = 2

FailureStep ==
  /\ \A msg \in FailureMessages :
       ((\E k \in inflight : ChunkFails(k, msg)) \/ StageFails(msg)) =>
         /\ notes' = notes
         /\ nextNoteId' = nextNoteId
         /\ screen = "loading" /\ screen' = "error"
         /\ error' = msg
         /\ pipePc' = "idle"
  /\ runs' # runs => (screen = "input" /\ screen' = "loading")
  /\ screen = "error" =>
       /\ screen' \in {"error", "input"}
       /\ notes' = notes
       /\ pipePc' = "idle"
       /\ runs' = runs

\* on the error screen no run is pending; notes are saved only by runs
NoRunWhileFailed ==
  /\ screen = "error" =>
       /\ pipePc = "idle"
       /\ inflight = {}
       /\ error \in FailureMessages
  /\ Len(notes) + 1 = nextNoteId
  /\ Len(notes) <= runs
  /\ screen = "loading" <=> pipePc # "idle"

\* C20: a failed invocation of a run saves no note and takes the app from
\* loading to the error screen with the message of the failure; on the error
\* screen no run is pending and none starts: a run starts only from the input
\* screen, which the retry action leads to.
C20_FailureSavesNothing ==
  NoRunWhileFailed /\ [][NoRunWhileFailed' /\ FailureStep]_vars

\* the second run failed in a batch whose other two invocations are still
\* pending; the note of the first run is the only one stored
C20_Witness ==
  /\ screen = "error"
  /\ error = ExhaustedError
  /\ runs = 2
  /\ orphans = 2
  /\ Len(notes) = 1

\* the component state of the OutputScreen
QuizView == <<selectedAnswers, showAnswers, questionScores, allQuestionsChecked>>

\* what the load effect of the OutputScreen puts into the component state of
\* a note that is opened from the stored progress
SavedView(noteId) ==
  IF HasQuizProgress(noteId)
  THEN <<quizProgress[noteId].selectedAnswers, quizProgress[noteId].showAnswers,
         quizProgress[noteId].questionScores, quizProgress[noteId].allQuestionsChecked>>
  ELSE <<EmptyObject, EmptyObject, EmptyObject, FALSE>>

\* C21: the quiz state is saved when the user leaves a note: at the moment the
\* note is closed, what a later opening of the note restores (selected
\* answers, checked flags, scores) is the state the user leaves, and opening
\* the note restores exactly the stored state.
C21_ProgressSavedOnLeave ==
  /\ [][handleBack => SavedView(notesData.id) = QuizView]_vars
  /\ [][\A x \in 1..MaxNotes : ViewNote(x) => QuizView' = SavedView(notes[x].id)]_vars

\* with a credential configured the cursor names a credential and a model
CursorInBounds ==
  numKeys >= 1 =>
    /\ currentKeyIndex \in 0..(numKeys - 1)
    /\ currentModelIndex \in 0..(numModels - 1)

\* a step in which some invocation starts an attempt: getNextKeyAndModel ran
Advanced == \E i \in Invokers : Attempts(i)

\* what one advance does to the cursor, and what no advance leaves alone
AdvanceStep ==
  IF Advanced
  THEN \/ /\ currentModelIndex + 1 < numModels
          /\ currentModelIndex' = currentModelIndex + 1
          /\ currentKeyIndex' = currentKeyIndex
       \/ /\ currentModelIndex + 1 = numModels
          /\ currentModelIndex' = 0
          /\ currentKeyIndex' = IF currentKeyIndex + 1 < numKeys
                                THEN currentKeyIndex + 1 ELSE 0
          \* the models of the credential that is left were all handed out
          /\ Len(handed') >= numModels
          /\ \A m \in 0..(numModels - 1) :
               handed'[Len(handed') - numModels + 1 + m] = <<currentKeyIndex, m>>
  ELSE currentKeyIndex' = currentKeyIndex /\ currentModelIndex' = currentModelIndex

\* C22: with N >= 1 credentials the cursor satisfies 0 <= currentKeyIndex < N
\* and 0 <= currentModelIndex < M; every advance either increments the model
\* index within bounds and keeps the credential, or resets the model index to
\* 0 and moves to the next credential, wrapping to 0 after the last one, so
\* the credential changes only after all M models were handed out for it.
\* This holds when invocations run concurrently.
C22_CursorAdvance ==
  CursorInBounds /\ [][CursorInBounds' /\ AdvanceStep]_vars

\* two concurrent invocations took one model each of credential 0, and the
\* cursor moved on to credential 1
C22_Witness ==
  /\ numKeys = 2 /\ numModels = 2
  /\ inv["a"].pc = "fetching" /\ inv["a"].attemptCount = 1
  /\ inv["b"].pc = "fetching" /\ inv["b"].attemptCount = 1
  /\ handed = <<<<0, 0>>, <<0, 1>>>>
  /\ currentKeyIndex = 1 /\ currentModelIndex = 0

AllPairs == (0..(numKeys - 1)) \X (0..(numModels - 1))

\* C23: an invocation that fails after the last pass of its loop has itself
\* attempted every one of the N*M credential/model pairs, and none succeeded,
\* also when other invocations run at the same time.
C23_ExhaustedTriedEveryPair ==
  \A i \in Invokers :
    (inv[i].pc = "failed" /\ numKeys >= 1)
      => /\ inv[i].attemptCount = totalCombinations
         /\ inv[i].result = ""
         /\ tried[i] = AllPairs

\* the failed attempts after which the next attempt waits: neither one of the
\* four retryable statuses nor an error with a rate-limit or quota message
DelayExpected(r) ==
  /\ r \in Responses \ (RetryableStatus \cup Texts)
  /\ Reason(r) \notin {"quota exceeded", "Rate limit: 429"}

\* the delay of an invocation, from the response of its latest settled attempt
DelayState(i) ==
  /\ inv[i].pc = "delay" =>
       /\ DelayExpected(inv[i].resp)
       /\ inv[i].attemptCount < totalCombinations
  /\ (inv[i].pc = "fetching" /\ inv[i].attemptCount >= 2) =>
       (inv[i].delayed <=> DelayExpected(inv[i].resp))
  /\ inv[i].pc = "failed" => ~inv[i].delayed

\* what follows the response r of an attempt of invocation i
DelayStep(i) ==
  \A r \in Responses \ Texts :
    Respond(i, r) =>
      IF inv[i].attemptCount = totalCombinations
      THEN inv'[i].pc = "failed"
      ELSE IF DelayExpected(r)
           THEN inv'[i].pc = "delay" /\ inv'[i].attemptCount = inv[i].attemptCount
           ELSE inv'[i].pc = "fetching" /\ inv'[i].attemptCount = inv[i].attemptCount + 1

\* C24: the next attempt follows at once when an attempt failed with HTTP 429,
\* 403, 404 or 400 or with an error whose message matches a rate-limit or
\* quota pattern; after any other failed attempt the 500 ms delay comes before
\* the next attempt; after the N*M-th attempt the invocation fails without a
\* delay.
C24_DelayBetweenAttempts ==
  /\ \A i \in Invokers : DelayState(i)
  /\ [][\A i \in Invokers : DelayState(i)' /\ DelayStep(i)
          /\ (DelayDone(i) => inv'[i].pc = "fetching"
                                /\ inv'[i].attemptCount = inv[i].attemptCount + 1)]_vars

\* the third attempt is under way, at once after the second one was answered
\* by a status 500 whose message names a quota
C24_Witness ==
  /\ inv["a"].pc = "fetching"
  /\ inv["a"].attemptCount = 3
  /\ inv["a"].resp = "500quota"
  /\ ~inv["a"].delayed
  /\ inv["a"].fatalAt = 2

\* the keys of the results of a list
KeysOf(results) ==
  {<<results[x].noteId, results[x].questionIndex>> : x \in 1..Len(results)}

\* the write of a save puts the copy the tab read, with the one change of
\* the save, in the place of the blob: what other saves wrote since the read
\* is gone
WriteStep ==
  \A t \in Tabs :
    TabWrites(t) =>
      LET op == tabs[t].op
          copy == tabs[t].copy
      IN IF op.kind = "saveQuizResult"
         THEN /\ KeysOf(quizResults') = KeysOf(copy.quizResults) \cup {<<op.noteId, op.questionIndex>>}
              /\ quizProgress' = copy.quizProgress
         ELSE /\ quizResults' = copy.quizResults
              /\ DOMAIN quizProgress' = (DOMAIN copy.quizProgress) \cup {op.noteId}
              /\ quizProgress'[op.noteId] = ProgressOf(op)

\* C25: a save reads the blob of the user, changes its copy and writes the
\* whole copy back; saves of two tabs interleave between the read and the
\* write, and the later write replaces the blob with a copy that lacks the
\* update of the other save (last write wins).
C25_LastWriteWins == [][WriteStep]_vars

\* both tabs have saved a result, for different questions of the note, and
\* the store holds one result only
C25_Witness ==
  /\ \A t \in Tabs : tabs[t].pc = "idle"
  /\ \A q \in {0, 1} :
       [kind |-> "saveQuizResult", noteId |-> 1, questionIndex |-> q,
        userAnswer |-> "A"] \in completedSaves
  /\ \A op \in completedSaves : op.kind = "saveQuizResult"
  /\ Len(quizResults) = 1

\* the position of the cursor in the rotation
CursorPosition == currentKeyIndex * numModels + currentModelIndex

\* an invocation that ran alone and failed after the last pass of its loop
FailedFullCycle(i) == inv[i].pc = "failed" /\ inv[i].alone /\ numKeys >= 1

\* after a failed full cycle the cursor is where the invocation found it
CursorBackAtStart ==
  \A i \in Invokers :
    FailedFullCycle(i) =>
      /\ inv[i].attemptCount = numKeys * numModels
      /\ Len(inv[i].pairs) = numKeys * numModels
      /\ getNextKeyAndModel = inv[i].pairs[1]

\* every attempt moves the cursor one position on, and the invocation that
\* follows a failed full cycle starts with the pair the failed one started with
CycleStep ==
  /\ Advanced => CursorPosition' = (CursorPosition + 1) % (numKeys * numModels)
  /\ \A i \in Invokers :
       (FailedFullCycle(i) /\ callGemini(i)) =>
         /\ inv'[i].attemptCount = 1
         /\ inv'[i].pairs = <<inv[i].pairs[1]>>

\* C26: each attempt advances the shared cursor by exactly one position, the
\* last attempt included; with no other invocation running, an invocation
\* that makes all N*M attempts leaves the cursor at the position it had when
\* the invocation started, and the next invocation begins with the same pair.
C26_FullCycleReturnsCursor ==
  CursorBackAtStart /\ [][CursorBackAtStart' /\ CycleStep]_vars

\* a cycle of 4 attempts that started at key 1, model 2 has failed, and the
\* cursor is at key 1, model 2 again
C26_Witness ==
  /\ numKeys = 2 /\ numModels = 2
  /\ FailedFullCycle("a")
  /\ inv["a"].pairs[1] = <<0, 1>>
  /\ currentKeyIndex = 0 /\ currentModelIndex = 1

\* the questions of a note that have a stored result
ResultQuestions(noteId) ==
  {quizResults[x].questionIndex :
     x \in {y \in 1..Len(quizResults) : quizResults[y].noteId = noteId}}

\* the questions of a note that its stored progress marks as checked
CheckedQuestions(noteId) ==
  IF noteId \in DOMAIN quizProgress
  THEN {q \in DOMAIN quizProgress[noteId].showAnswers : quizProgress[noteId].showAnswers[q]}
  ELSE {}

\* C27: for every note, the questions that have a stored QuizResult are the
\* questions that the stored QuizProgress of the note marks as checked, after
\* any sequence of answer checks, in-note resets, dashboard resets and note
\* deletions.
C27_ResultsMatchProgress ==
  \A x \in 1..Len(notes) :
    ResultQuestions(notes[x].id) = CheckedQuestions(notes[x].id)

StoredNoteIds == {notes[x].id : x \in 1..Len(notes)}

\* C28: every stored QuizResult and every QuizProgress entry of the user
\* refers to a note of the user's notes list, after any sequence of note
\* saves, answer checks, resets and deletions, a save that drops the oldest
\* note at the cap of 50 included.
C28_QuizDataRefersToStoredNote ==
  /\ \A x \in 1..Len(quizResults) : quizResults[x].noteId \in StoredNoteIds
  /\ DOMAIN quizProgress \subseteq StoredNoteIds

\* C29: once a run has failed and the app shows the error, no further attempt
\* is made on behalf of the run: the other chunk-summary invocations of the
\* batch start no attempt and leave the rotation cursor where it is.
C29_NoAttemptAfterFailure ==
  [][screen = "error" =>
       /\ ~Advanced
       /\ currentKeyIndex' = currentKeyIndex
       /\ currentModelIndex' = currentModelIndex]_vars

\* C30: chunkText terminates for every text, every maxWords >= 1 and every
\* overlapPercent from 0 to 100: a turn of the loop that does not leave the
\* loop moves startIdx strictly forward, so every chunk after the first adds
\* at least one new word.
C30_ChunkLoopAdvances ==
  [][(ChunkLoop /\ chunkPc' = "loop") =>
       /\ startIdx' > startIdx
       /\ Min(startIdx' + maxWords, wordCount) > chunks'[Len(chunks')][2]]_vars

====
